---- MODULE Spec2Model ----
(***************************************************************************)
(* A model of the orchestration core of the UIR framework: the per-adapter *)
(* circuit breaker (core/circuit_breaker.py), the two-tier cache           *)
(* (cache.py), the provider manager's selection (providers/manager.py),    *)
(* the aggregator and its fusions (aggregator.py), the router's text,       *)
(* vector and hybrid searches (router.py), the adapter's retried request   *)
(* (core/adapter.py), the token bucket (core/rate_limiter.py) and the      *)
(* query processor (query_processor.py).  Time is a shared integer clock.  *)
(***************************************************************************)
EXTENDS Integers, Sequences, FiniteSets, TLC

(***************************************************************************)
(* Bounds of the model.                                                    *)
(***************************************************************************)
MaxTime == 4
NumCallers == 2
MaxThreshold == 2
MaxRecovery == 2
MaxHalfOpen == 2
MaxRouterTime == 2
MaxAttempts == 3
MaxResults == 3
MaxLists == 2
MaxListLen == 2
MaxBucketTime == 2
MaxCapacity == 2
MaxRate == 2
MaxTokens == 2
MaxStrategies == 2
MaxRequested == 2
MaxWindowTime == 3
MaxRequests == 2
MaxWindow == 2

\* last_failure_time = None
NoTime == -1

Callers == 1..NumCallers

VARIABLES
    now,                 \* the clock (datetime.now())
    \* ---- CircuitBreaker fields
    failure_threshold,
    recovery_timeout,
    half_open_max_calls,
    failure_count,
    last_failure_time,
    state,
    half_open_calls,
    \* ---- callers of CircuitBreaker.call
    pc,                  \* pc[c]: "idle", or "running" while the wrapped function runs
    evt,                 \* the last breaker step: its kind, the state it started in,
                         \* and a bit that every step flips
    \* ---- history of the breaker
    opened_at,           \* the time at which the breaker last entered Open
    consec,              \* counted failures since the last success, reset or start
    \* ---- ProviderManager
    health_status,       \* name -> "none" (never checked), "healthy", "degraded", "unhealthy"
    \* ---- CacheManager
    redis_client,        \* "none", "redis" (a server that expires keys), "mock"
                         \* (MockRedisAPI) or "down" (a client whose calls raise)
    redis_data,          \* the remote tier: key -> [data, expires]
    local_cache,         \* the local tier, a dict in insertion order: [key, data, expires_at]
    \* ---- RouterService.search, one request at a time
    rpc,                 \* "idle", "gathering" (awaiting asyncio.gather) or "done"
    request,
    available_providers, \* the providers a task was created for, in task order
    results,             \* results[i]: Pending, an exception, or the list provider i returned
    start_time,
    response,
    \* ---- history of the request
    late,                \* late[i]: task i ended after the request's deadline
    from_cache,          \* the response is the one cache get returned
    stored,              \* this request called cache set
    last_set,            \* key -> the response last passed to cache set
    prior,               \* request -> when it last completed with a status other than error
    raised,              \* the message of the exception raised while the request
                         \* was handled, "none" if there was none
    repeat               \* "first", or how the request in flight started after an
                         \* identical one had completed with a status other than
                         \* error: "within_ttl" of what that one stored, or "after_ttl"

VARIABLES
    \* ---- ProviderAdapter._execute_request, one call at a time
    apc,                 \* "idle", "ready" (before an attempt), "running" (in
                         \* _make_request) or "done"
    has_breaker,         \* config.circuit_breaker_config is set
    max_attempts,        \* config.retry_policy["max_attempts"]
    attempt_number,      \* tenacity's attempt_number
    wake,                \* the time the wait before the next attempt ends
    last_error,          \* what the last attempt raised, "none" if nothing
    adapter_result,      \* "none", "ok" or "retry_error"
    \* ---- history of the call
    retried_after,       \* the errors after which another attempt was scheduled
    failures_before,     \* the breaker's failure_count when the call started
    \* ---- ResultAggregator: one call of aggregate, one of reciprocal_rank_fusion
    gpc,                 \* "input", "aggregated" or "fused"
    agg_results,         \* aggregate's results argument
    agg_deduplicate,     \* aggregate's deduplicate argument
    agg_returned,        \* what aggregate returned
    result_lists,        \* reciprocal_rank_fusion's result_lists argument
    fused,               \* what reciprocal_rank_fusion returned
    \* ---- TokenBucket
    capacity,
    refill_rate,         \* tokens per tick of the clock
    tokens,
    last_refill,
    tpc,                 \* tpc[c]: the coroutine c in acquire(n): "idle", or asleep
                         \* until wake
    \* ---- history of the bucket
    grants,              \* grants[t]: the tokens granted at time t
    \* ---- QueryProcessor.process, one call at a time
    qpc,                 \* "idle", "gathering", "expanding", "done" or "raised"
    enrichments,         \* the outcome of each task given to asyncio.gather
    expanded,            \* the outcome of expand_query
    processed_query      \* the ProcessedQuery returned

VARIABLES
    \* ---- one direct call of a method of the manager or the cache
    call_args,           \* the method called and what it was given
    call_result          \* what the call returned

VARIABLES
    \* ---- SlidingWindowRateLimiter
    max_requests,
    window_seconds,      \* in ticks of the clock
    requests,            \* the deque of the timestamps admitted, oldest first
    wpc,                 \* wpc[c]: the coroutine c in acquire(): "idle", or asleep
                         \* until wake
    \* ---- history of the limiter
    admissions,          \* admissions[t]: the calls admitted at time t
    last_try             \* the last try_acquire: when, the deque it found, what it
                         \* returned

bvars == <<failure_threshold, recovery_timeout, half_open_max_calls, failure_count,
           last_failure_time, state, half_open_calls, pc, evt, opened_at, consec>>

rvars == <<health_status, redis_client, redis_data, local_cache, rpc, request,
           available_providers, results, start_time, response, late, from_cache,
           stored, last_set, prior, repeat, raised>>

avars == <<apc, has_breaker, max_attempts, attempt_number, wake, last_error,
           adapter_result, retried_after, failures_before>>

gvars == <<gpc, agg_results, agg_deduplicate, agg_returned, result_lists, fused>>

tvars == <<capacity, refill_rate, tokens, last_refill, tpc, grants>>

qvars == <<qpc, enrichments, expanded, processed_query>>

cvars == <<call_args, call_result>>

wvars == <<max_requests, window_seconds, requests, wpc, admissions, last_try>>

\* the components other than the breaker and the router
xvars == <<avars, gvars, tvars, qvars, cvars, wvars>>

\* xvars without the adapter, without the aggregator, without the bucket,
\* without the query processor, without the direct call, without the window
\* limiter
not_avars == <<gvars, tvars, qvars, cvars, wvars>>
not_gvars == <<avars, tvars, qvars, cvars, wvars>>
not_tvars == <<avars, gvars, qvars, cvars, wvars>>
not_qvars == <<avars, gvars, tvars, cvars, wvars>>
not_cvars == <<avars, gvars, tvars, qvars, wvars>>
not_wvars == <<avars, gvars, tvars, qvars, cvars>>

vars == <<now, bvars, rvars, xvars>>

(***************************************************************************)
(* core/circuit_breaker.py                                                 *)
(***************************************************************************)

BreakerInit ==
    /\ failure_threshold \in 1..MaxThreshold
    /\ recovery_timeout \in 1..MaxRecovery
    /\ half_open_max_calls \in 1..MaxHalfOpen
    /\ failure_count = 0
    /\ last_failure_time = NoTime
    /\ state = "closed"
    /\ half_open_calls = 0
    /\ pc = [c \in Callers |-> "idle"]
    /\ evt = [kind |-> "init", from |-> "closed", flip |-> FALSE]
    /\ opened_at = NoTime
    /\ consec = 0

Event(kind) == evt' = [kind |-> kind, from |-> state, flip |-> ~evt.flip]

\* _should_attempt_reset
should_attempt_reset_early ==
    IF last_failure_time = NoTime
        THEN FALSE
        ELSE now + 1 >= last_failure_time + recovery_timeout

should_attempt_reset ==
    IF last_failure_time = NoTime
        THEN FALSE
        ELSE now >= last_failure_time + recovery_timeout

\* _on_success, on the breaker's fields
on_success_keeps_count ==
    IF state = "half_open"
        THEN /\ half_open_calls' = half_open_calls + 1
             /\ IF half_open_calls + 1 >= half_open_max_calls
                    THEN state' = "closed" /\ failure_count' = 0
                    ELSE UNCHANGED <<state, failure_count>>
        ELSE UNCHANGED <<state, failure_count, half_open_calls>>

on_success ==
    IF state = "half_open"
        THEN /\ half_open_calls' = half_open_calls + 1
             /\ IF half_open_calls + 1 >= half_open_max_calls
                    THEN state' = "closed" /\ failure_count' = 0
                    ELSE UNCHANGED <<state, failure_count>>
        ELSE /\ failure_count' = 0
             /\ UNCHANGED <<state, half_open_calls>>

\* _on_failure, on the breaker's fields
on_failure_half_open_stays ==
    /\ failure_count' = failure_count + 1
    /\ last_failure_time' = now
    /\ IF state # "half_open" /\ failure_count + 1 >= failure_threshold
           THEN state' = "open"
           ELSE UNCHANGED state

\* _on_failure that opens only past the threshold
on_failure_opens_late ==
    /\ failure_count' = failure_count + 1
    /\ last_failure_time' = now
    /\ IF state = "half_open"
           THEN state' = "open"
           ELSE IF failure_count + 1 > failure_threshold
                    THEN state' = "open"
                    ELSE UNCHANGED state

on_failure ==
    /\ failure_count' = failure_count + 1
    /\ last_failure_time' = now
    /\ IF state = "half_open"
           THEN state' = "open"
           ELSE IF failure_count + 1 >= failure_threshold
                    THEN state' = "open"
                    ELSE UNCHANGED state

\* history: the time of the last entry into Open
TrackOpened ==
    opened_at' = IF state # "open" /\ state' = "open" THEN now ELSE opened_at

\* call(), up to the start of the wrapped function
Call(c) ==
    /\ pc[c] = "idle"
    /\ IF state = "open"
           THEN IF should_attempt_reset
                    THEN /\ state' = "half_open"
                         /\ half_open_calls' = 0
                         /\ pc' = [pc EXCEPT ![c] = "running"]
                         /\ Event("admit")
                    ELSE /\ UNCHANGED <<state, half_open_calls, pc>>
                         /\ Event("reject")
           ELSE /\ UNCHANGED <<state, half_open_calls>>
                /\ pc' = [pc EXCEPT ![c] = "running"]
                /\ Event("admit")
    /\ UNCHANGED <<now, failure_threshold, recovery_timeout, half_open_max_calls,
                   failure_count, last_failure_time, opened_at, consec, rvars, xvars>>

\* the wrapped function returns: call() runs _on_success and returns the result
Succeed(c) ==
    /\ pc[c] = "running"
    /\ on_success
    /\ pc' = [pc EXCEPT ![c] = "idle"]
    /\ Event("success")
    /\ consec' = 0
    /\ UNCHANGED <<now, failure_threshold, recovery_timeout, half_open_max_calls,
                   last_failure_time, opened_at, rvars, xvars>>

\* the wrapped function raises an expected_exception: call() runs _on_failure
Fail(c) ==
    /\ pc[c] = "running"
    /\ on_failure
    /\ UNCHANGED half_open_calls
    /\ pc' = [pc EXCEPT ![c] = "idle"]
    /\ Event("failure")
    /\ consec' = consec + 1
    /\ TrackOpened
    /\ UNCHANGED <<now, failure_threshold, recovery_timeout, half_open_max_calls, rvars, xvars>>

\* the steps of the breaker that run inside "async with self._lock": the
\* admission or rejection in call(), _on_success and _on_failure; reset() and
\* the wrapped function do not take the lock
HoldsLock(kind) == kind \in {"admit", "reject", "success", "failure"}

\* an exception that is no expected_exception, counted as a failure all the same
RaiseOther_counted(c) ==
    /\ pc[c] = "running"
    /\ on_failure
    /\ UNCHANGED half_open_calls
    /\ pc' = [pc EXCEPT ![c] = "idle"]
    /\ Event("raise")
    /\ consec' = consec + 1
    /\ TrackOpened
    /\ UNCHANGED <<now, failure_threshold, recovery_timeout, half_open_max_calls, rvars, xvars>>

\* the wrapped function raises something that is no expected_exception
RaiseOther(c) ==
    /\ pc[c] = "running"
    /\ pc' = [pc EXCEPT ![c] = "idle"]
    /\ Event("raise")
    /\ UNCHANGED <<now, failure_threshold, recovery_timeout, half_open_max_calls,
                   failure_count, last_failure_time, state, half_open_calls,
                   opened_at, consec, rvars, xvars>>

\* reset()
Reset ==
    /\ failure_count' = 0
    /\ last_failure_time' = NoTime
    /\ state' = "closed"
    /\ half_open_calls' = 0
    /\ Event("reset")
    /\ consec' = 0
    /\ UNCHANGED <<now, failure_threshold, recovery_timeout, half_open_max_calls,
                   pc, opened_at, rvars, xvars>>

Tick ==
    /\ now < MaxTime
    /\ now' = now + 1
    /\ UNCHANGED <<bvars, rvars, xvars>>

(***************************************************************************)
(* Values shared by the manager, the cache, the aggregator and the router. *)
(***************************************************************************)

\* None, for an Optional field holding a record
None == [none |-> TRUE]

Range(s) == {s[i] : i \in DOMAIN s}

\* ProviderManager.adapters, in insertion order
Registry == <<"google", "bing">>

\* the order of str comparison on the provider names (sorted() in the cache key)
NameOrder == <<"bing", "google", "pinecone">>

NameRank(n) == CHOOSE i \in DOMAIN NameOrder : NameOrder[i] = n

\* a SearchResult: fp stands for its url (or title, content, snippet), match for
\* the number of query terms its text contains; scores are in units of 1/16
Result(id, fp, score, provider, match) ==
    [id |-> id, fp |-> fp, score |-> score, provider |-> provider, match |-> match]

\* what adapter.search of each provider may return
AdapterResults(p) ==
    IF p = "google"
        THEN {<<Result("g1", "u1", 12, "google", 0), Result("g2", "u2", 4, "google", 2)>>}
        ELSE {<<Result("b1", "u1", 8, "bing", 2)>>}

\* the number of distinct terms of a query (rerank's query_terms)
QueryTerms(query) == 2

(***************************************************************************)
(* models.py: the requests                                                 *)
(***************************************************************************)

\* SearchOptions with its defaults; timeout_ms is in clock ticks
DefaultOptions ==
    [limit |-> 10, timeout_ms |-> 2, rerank |-> FALSE, cache |-> None,
     fallback_providers |-> <<>>, min_score |-> 0, deduplicate |-> TRUE]

\* CacheOptions
CacheOptions(enabled, ttl_seconds) ==
    [enabled |-> enabled, ttl_seconds |-> ttl_seconds, key |-> None]

\* SearchRequest; provider is one name (list = FALSE) or a list of names
SearchRequest(list, names, query, options) ==
    [provider |-> [list |-> list, names |-> names], query |-> query, options |-> options]

Queries == {"machine learning", "latest ai news"}

OptionsTried ==
    {None,
     DefaultOptions,
     [DefaultOptions EXCEPT !.rerank = TRUE],
     [DefaultOptions EXCEPT !.deduplicate = FALSE],
     [DefaultOptions EXCEPT !.min_score = 8, !.limit = 1],
     [DefaultOptions EXCEPT !.timeout_ms = 1]}

CachedOptions ==
    {[DefaultOptions EXCEPT !.cache = CacheOptions(TRUE, 1)],
     [DefaultOptions EXCEPT !.cache = CacheOptions(FALSE, 1)]}

Requests ==
    {SearchRequest(TRUE, <<"google", "bing">>, "machine learning", o) : o \in OptionsTried}
    \cup {SearchRequest(TRUE, <<"google", "bing">>, "latest ai news", DefaultOptions),
          SearchRequest(FALSE, <<"google">>, "machine learning", DefaultOptions),
          SearchRequest(TRUE, <<"bing">>, "machine learning",
                        [DefaultOptions EXCEPT !.fallback_providers = <<"google">>])}
    \cup {SearchRequest(FALSE, <<"bing">>, "machine learning", o) : o \in CachedOptions}
    \cup {SearchRequest(FALSE, <<"google">>, "machine learning",
                        [DefaultOptions EXCEPT !.cache = CacheOptions(TRUE, 0)])}

(***************************************************************************)
(* query_processor.py, as far as the router reads its result               *)
(***************************************************************************)

\* ProcessedQuery.filters is a non-empty dict: generate_filters adds
\* document_type for a news (or academic) intent
HasFilters(query) == query = "latest ai news"

\* ProcessedQuery.corrected is not None
Corrected(query) == FALSE

(***************************************************************************)
(* providers/manager.py                                                    *)
(***************************************************************************)

\* get_available_providers(requested_providers), without a provider_type
get_available_providers(requested) ==
    SelectSeq(Registry, LAMBDA n :
        /\ (requested = <<>> \/ n \in Range(requested))
        /\ health_status[n] \in {"healthy", "degraded", "none"})

\* check_provider_health stores the status it found
CheckProviderHealth(n, status) ==
    /\ rpc \in {"idle", "gathering"}
    /\ health_status[n] # status
    /\ health_status' = [health_status EXCEPT ![n] = status]
    /\ UNCHANGED <<now, bvars, xvars, redis_client, redis_data, local_cache, rpc, request,
                   available_providers, results, start_time, response, late,
                   from_cache, stored, last_set, prior, repeat, raised>>

(***************************************************************************)
(* aggregator.py                                                           *)
(***************************************************************************)

\* _get_content_hash
get_content_hash(r) == r.fp

\* list.sort(key = score, reverse = True): stable, descending
RECURSIVE InsertByScore(_, _)
InsertByScore(sorted, r) ==
    IF sorted = <<>> THEN <<r>>
    ELSE IF Head(sorted).score >= r.score
             THEN <<Head(sorted)>> \o InsertByScore(Tail(sorted), r)
             ELSE <<r>> \o sorted

RECURSIVE SortByScore(_)
SortByScore(rs) ==
    IF rs = <<>> THEN <<>>
    ELSE InsertByScore(SortByScore(SubSeq(rs, 1, Len(rs) - 1)), rs[Len(rs)])

\* _deduplicate that keeps the first result of each hash
RECURSIVE deduplicate_keep_first(_)
deduplicate_keep_first(rs) ==
    IF rs = <<>> THEN <<>>
    ELSE LET unique == deduplicate_keep_first(SubSeq(rs, 1, Len(rs) - 1))
             r == rs[Len(rs)]
             same == {i \in DOMAIN unique :
                          get_content_hash(unique[i]) = get_content_hash(r)}
         IN IF same = {} THEN Append(unique, r) ELSE unique

\* _deduplicate: the first result of each hash keeps its place; a later one with
\* a strictly higher score replaces it there
RECURSIVE deduplicate(_)
deduplicate(rs) ==
    IF rs = <<>> THEN <<>>
    ELSE LET unique == deduplicate(SubSeq(rs, 1, Len(rs) - 1))
             r == rs[Len(rs)]
             same == {i \in DOMAIN unique :
                          get_content_hash(unique[i]) = get_content_hash(r)}
         IN IF same = {} THEN Append(unique, r)
            ELSE LET i == CHOOSE j \in same : TRUE
                 IN IF r.score > unique[i].score
                        THEN [unique EXCEPT ![i] = r]
                        ELSE unique

aggregate(rs, dedup) ==
    IF rs = <<>> THEN <<>>
    ELSE SortByScore(IF dedup THEN deduplicate(rs) ELSE rs)

\* rerank: score * (1 + 0.5 * matching_terms / len(query_terms)), then the sort
rerank(rs, query) ==
    LET q == QueryTerms(query)
        boosted == [i \in DOMAIN rs |->
                      [rs[i] EXCEPT !.score =
                          IF q = 0 THEN rs[i].score
                          ELSE (rs[i].score * (2 * q + rs[i].match)) \div (2 * q)]]
    IN SortByScore(boosted)

(***************************************************************************)
(* cache.py                                                                *)
(***************************************************************************)

\* CacheManager(default_ttl, max_cache_size), in clock ticks and entries
default_ttl == 3
max_cache_size == 1

RECURSIVE SortNames(_)
SortNames(names) ==
    IF names = <<>> THEN <<>>
    ELSE LET m == CHOOSE i \in DOMAIN names :
                      \A j \in DOMAIN names : NameRank(names[i]) <= NameRank(names[j])
         IN <<names[m]>> \o
            SortNames([k \in 1..(Len(names) - 1) |->
                          IF k < m THEN names[k] ELSE names[k + 1]])

\* _generate_cache_key that joins the provider names as they are listed
generate_cache_key_unsorted(req) ==
    IF req.options # None /\ req.options.cache # None /\ req.options.cache.key # None
           /\ req.options.cache.key.str # ""
        THEN [custom |-> TRUE, key |-> req.options.cache.key]
        ELSE [custom |-> FALSE,
              providers |-> req.provider.names,
              query |-> req.query,
              options |-> req.options]

\* _generate_cache_key: the custom key (a key [str |-> k] with k not empty), or
\* the sorted provider names, the query and the options (each standing for its
\* md5)
generate_cache_key(req) ==
    IF req.options # None /\ req.options.cache # None /\ req.options.cache.key # None
           /\ req.options.cache.key.str # ""
        THEN [custom |-> TRUE, key |-> req.options.cache.key]
        ELSE [custom |-> FALSE,
              providers |-> IF req.provider.list
                                THEN SortNames(req.provider.names)
                                ELSE req.provider.names,
              query |-> req.query,
              options |-> req.options]

\* the fields of SearchResponse and its metadata, in model_dump order
ResponseFields ==
    <<"status", "results", "providers_used", "providers_failed", "cache_hit",
      "spell_corrected", "filters_applied", "errors", "provider_used">>

\* _serialize_response: the JSON object, a list of (name, value) pairs
serialize_response(resp) ==
    [i \in DOMAIN ResponseFields |-> <<ResponseFields[i], resp[ResponseFields[i]]>>]

\* _deserialize_response: SearchResponse(**json.loads(data))
deserialize_response(data) ==
    [f \in {data[i][1] : i \in DOMAIN data} |->
        LET i == CHOOSE j \in DOMAIN data : data[j][1] = f IN data[i][2]]

\* caching is switched off for the request (get and set return at once)
CacheDisabled(req) ==
    req.options # None /\ req.options.cache # None /\ ~req.options.cache.enabled

\* the remote tier's get: a redis server has dropped a key whose time is up,
\* MockRedisAPI.get never looks at the expiry it recorded
RedisGet(key) ==
    IF key \in DOMAIN redis_data
           /\ (redis_client = "mock" \/ now < redis_data[key].expires)
        THEN [found |-> TRUE, data |-> redis_data[key].data]
        ELSE [found |-> FALSE]

\* dict operations on local_cache
LocalIndex(cache, key) == {i \in DOMAIN cache : cache[i].key = key}

LocalDelete(cache, key) == SelectSeq(cache, LAMBDA e : e.key # key)

LocalPut(cache, key, data, expires_at) ==
    LET e == [key |-> key, data |-> data, expires_at |-> expires_at]
    IN IF LocalIndex(cache, key) = {}
           THEN Append(cache, e)
           ELSE [i \in DOMAIN cache |-> IF cache[i].key = key THEN e ELSE cache[i]]

\* sorted(items, key = expires_at): stable, ascending
RECURSIVE InsertByExpiry(_, _)
InsertByExpiry(sorted, e) ==
    IF sorted = <<>> THEN <<e>>
    ELSE IF Head(sorted).expires_at <= e.expires_at
             THEN <<Head(sorted)>> \o InsertByExpiry(Tail(sorted), e)
             ELSE <<e>> \o sorted

RECURSIVE SortByExpiry(_)
SortByExpiry(cache) ==
    IF cache = <<>> THEN <<>>
    ELSE InsertByExpiry(SortByExpiry(SubSeq(cache, 1, Len(cache) - 1)), cache[Len(cache)])

\* _evict_local_cache
evict_local_cache(cache) ==
    LET live == SelectSeq(cache, LAMBDA e : e.expires_at > now)
    IN IF Len(live) > max_cache_size
           THEN LET oldest == SubSeq(SortByExpiry(live), 1, Len(live) \div 5)
                IN SelectSeq(live, LAMBDA e : e \notin Range(oldest))
           ELSE live

\* get(request) that returns a local entry whatever its expiry
cache_get_ignores_expiry(req) ==
    LET key == generate_cache_key(req)
        idx == LocalIndex(local_cache, key)
    IN IF CacheDisabled(req)
           THEN [hit |-> FALSE, data |-> None, local |-> local_cache]
       ELSE IF redis_client \in {"redis", "mock"} /\ RedisGet(key).found
           THEN [hit |-> TRUE, data |-> deserialize_response(RedisGet(key).data),
                 local |-> local_cache]
       ELSE IF idx = {}
           THEN [hit |-> FALSE, data |-> None, local |-> local_cache]
       ELSE [hit |-> TRUE, data |-> local_cache[CHOOSE i \in idx : TRUE].data,
             local |-> local_cache]

\* get(request): [hit, data, local], local being local_cache afterwards; the
\* remote tier is skipped when there is no client or its get raises
cache_get(req) ==
    LET key == generate_cache_key(req)
        idx == LocalIndex(local_cache, key)
    IN IF CacheDisabled(req)
           THEN [hit |-> FALSE, data |-> None, local |-> local_cache]
       ELSE IF redis_client \in {"redis", "mock"} /\ RedisGet(key).found
           THEN [hit |-> TRUE, data |-> deserialize_response(RedisGet(key).data),
                 local |-> local_cache]
       ELSE IF idx = {}
           THEN [hit |-> FALSE, data |-> None, local |-> local_cache]
       ELSE LET entry == local_cache[CHOOSE i \in idx : TRUE]
            IN IF entry.expires_at > now
                   THEN [hit |-> TRUE, data |-> entry.data, local |-> local_cache]
                   ELSE [hit |-> FALSE, data |-> None,
                         local |-> LocalDelete(local_cache, key)]

\* the ttl set() stores with
cache_ttl(req) ==
    IF req.options # None /\ req.options.cache # None
           /\ req.options.cache.ttl_seconds # 0
        THEN req.options.cache.ttl_seconds
        ELSE default_ttl

cache_set_remote_only(req, resp) ==
    LET key == generate_cache_key(req)
        ttl == cache_ttl(req)
    IN IF CacheDisabled(req)
           THEN [redis |-> redis_data, local |-> local_cache]
           ELSE [redis |->
                     IF redis_client \in {"redis", "mock"}
                         THEN [k \in DOMAIN redis_data \cup {key} |->
                                  IF k = key
                                      THEN [data |-> serialize_response(resp),
                                            expires |-> now + ttl]
                                      ELSE redis_data[k]]
                         ELSE redis_data,
                 local |-> local_cache]

\* set(request, response): [redis, local], the two tiers afterwards; the
\* remote tier is left alone when there is no client or setex raises
cache_set(req, resp) ==
    LET key == generate_cache_key(req)
        ttl == cache_ttl(req)
        put == LocalPut(local_cache, key, resp, now + ttl)
    IN IF CacheDisabled(req)
           THEN [redis |-> redis_data, local |-> local_cache]
           ELSE [redis |->
                     IF redis_client \in {"redis", "mock"}
                         THEN [k \in DOMAIN redis_data \cup {key} |->
                                  IF k = key
                                      THEN [data |-> serialize_response(resp),
                                            expires |-> now + ttl]
                                      ELSE redis_data[k]]
                         ELSE redis_data,
                 local |->
                     IF Len(put) > max_cache_size
                         THEN evict_local_cache(put)
                         ELSE put]

(***************************************************************************)
(* router.py: RouterService.search                                         *)
(***************************************************************************)

Pending == [kind |-> "pending"]
Raised == [kind |-> "exception"]
Returned(list) == [kind |-> "returned", list |-> list]

\* SearchResponse with its ResponseMetadata; an Optional field that is None is
\* the empty sequence, one holding a value the sequence of that value
SearchResponse(status, final, used, failed, errors) ==
    [status |-> status, results |-> final, providers_used |-> used,
     providers_failed |-> failed, cache_hit |-> FALSE, spell_corrected |-> FALSE,
     filters_applied |-> <<>>, errors |-> errors,
     provider_used |-> IF Len(used) = 1 THEN <<used[1]>> ELSE <<>>]

\* _error_response that does not pass the message on
error_response_generic(message) ==
    [status |-> "error", results |-> <<>>, providers_used |-> <<>>,
     providers_failed |-> <<>>, cache_hit |-> FALSE, spell_corrected |-> FALSE,
     filters_applied |-> <<>>, errors |-> <<"Internal error">>, provider_used |-> <<>>]

\* _error_response
error_response(message) ==
    [status |-> "error", results |-> <<>>, providers_used |-> <<>>,
     providers_failed |-> <<>>, cache_hit |-> FALSE, spell_corrected |-> FALSE,
     filters_applied |-> <<>>, errors |-> <<message>>, provider_used |-> <<>>]

\* _normalize_providers
normalize_providers(provider) == provider.names

\* the router consults the cache for this request
UsesCache(req) == req.options # None /\ req.options.cache # None

\* the providers the search creates tasks for (every selected name has an adapter)
SelectProviders(req) ==
    LET first == get_available_providers(normalize_providers(req.provider))
    IN IF first = <<>> /\ req.options # None /\ req.options.fallback_providers # <<>>
           THEN get_available_providers(req.options.fallback_providers)
           ELSE first

RECURSIVE Flatten(_)
Flatten(lists) ==
    IF lists = <<>> THEN <<>> ELSE Head(lists) \o Flatten(Tail(lists))

\* the status of the response built after the gather
ResponseStatus(failed_providers, successful_providers) ==
    IF failed_providers = <<>> THEN "success" ELSE "partial"

\* lines 98-153: from the gathered outcomes to the SearchResponse
BuildResponse(req, providers, outcomes) ==
    LET idx == [i \in DOMAIN providers |-> i]
        ok == SelectSeq(idx, LAMBDA i : outcomes[i].kind = "returned")
        bad == SelectSeq(idx, LAMBDA i : outcomes[i].kind = "exception")
        all_results == Flatten([k \in DOMAIN ok |-> outcomes[ok[k]].list])
        failed_providers == [k \in DOMAIN bad |-> providers[bad[k]]]
        successful_providers == [k \in DOMAIN ok |-> providers[ok[k]]]
        ranked == IF req.options # None /\ req.options.rerank
                      THEN rerank(all_results, req.query)
                      ELSE aggregate(all_results,
                                     IF req.options # None
                                         THEN req.options.deduplicate ELSE TRUE)
        scored == IF req.options # None /\ req.options.min_score # 0
                      THEN SelectSeq(ranked, LAMBDA r : r.score >= req.options.min_score)
                      ELSE ranked
        limit == IF req.options # None THEN req.options.limit ELSE 10
        final == SubSeq(scored, 1, IF Len(scored) < limit THEN Len(scored) ELSE limit)
    IN SearchResponse(ResponseStatus(failed_providers, successful_providers),
                      final, successful_providers, failed_providers, <<>>)

ClearRequest ==
    /\ request' = None
    /\ available_providers' = <<>>
    /\ results' = <<>>
    /\ late' = <<>>
    /\ start_time' = NoTime
    /\ response' = None
    /\ from_cache' = FALSE
    /\ stored' = FALSE
    /\ repeat' = "first"
    /\ raised' = "none"

\* search(request) up to the gather: the cache lookup, the query processor,
\* the selection of providers and the creation of one task per provider
Search(req) ==
    /\ rpc = "idle"
    /\ request' = req
    /\ start_time' = now
    /\ stored' = FALSE
    /\ \E processed \in BOOLEAN :
         LET got == IF UsesCache(req) THEN cache_get(req)
                    ELSE [hit |-> FALSE, data |-> None, local |-> local_cache]
             providers == SelectProviders(req)
         IN /\ local_cache' = got.local
            /\ IF got.hit
                   THEN \* cached_result is returned as it is
                        /\ response' = got.data
                        /\ from_cache' = TRUE
                        /\ rpc' = "done"
                        /\ raised' = "none"
                        /\ UNCHANGED <<available_providers, results, late>>
               ELSE IF ~processed
                   THEN \* query_processor.process raised
                        /\ response' = error_response("process")
                        /\ raised' = "process"
                        /\ from_cache' = FALSE
                        /\ rpc' = "done"
                        /\ UNCHANGED <<available_providers, results, late>>
               ELSE IF providers = <<>>
                   THEN /\ response' = error_response("No available providers")
                        /\ raised' = "none"
                        /\ from_cache' = FALSE
                        /\ rpc' = "done"
                        /\ UNCHANGED <<available_providers, results, late>>
               ELSE /\ available_providers' = providers
                    /\ results' = [i \in DOMAIN providers |-> Pending]
                    /\ late' = [i \in DOMAIN providers |-> FALSE]
                    /\ from_cache' = FALSE
                    /\ rpc' = "gathering"
                    /\ UNCHANGED <<response, raised>>
    /\ repeat' = IF req \notin DOMAIN prior THEN "first"
                  ELSE IF now < prior[req] + cache_ttl(req) THEN "within_ttl"
                  ELSE "after_ttl"
    /\ UNCHANGED <<now, bvars, xvars, health_status, redis_client, redis_data, last_set, prior>>

\* the deadline of the request in flight: timeout_ms after its start
Deadline ==
    start_time + (IF request.options # None THEN request.options.timeout_ms
                  ELSE DefaultOptions.timeout_ms)

PastDeadline == now > Deadline

\* a provider's task ends: adapter.search returned a list or raised
TaskReturns(i) ==
    /\ rpc = "gathering"
    /\ i \in DOMAIN results
    /\ results[i] = Pending
    /\ \E list \in AdapterResults(available_providers[i]) :
           results' = [results EXCEPT ![i] = Returned(list)]
    /\ late' = [late EXCEPT ![i] = PastDeadline]
    /\ UNCHANGED <<now, bvars, xvars, health_status, redis_client, redis_data, local_cache,
                   rpc, request, available_providers, start_time, response,
                   from_cache, stored, last_set, prior, repeat, raised>>

TaskRaises(i) ==
    /\ rpc = "gathering"
    /\ i \in DOMAIN results
    /\ results[i] = Pending
    /\ results' = [results EXCEPT ![i] = Raised]
    /\ late' = [late EXCEPT ![i] = PastDeadline]
    /\ UNCHANGED <<now, bvars, xvars, health_status, redis_client, redis_data, local_cache,
                   rpc, request, available_providers, start_time, response,
                   from_cache, stored, last_set, prior, repeat, raised>>

\* the gather has every outcome: lines 98-167
Gathered ==
    /\ rpc = "gathering"
    /\ \A i \in DOMAIN results : results[i] # Pending
    /\ rpc' = "done"
    /\ IF HasFilters(request.query)
           THEN \* ResponseMetadata(filters_applied = <a dict>) fails validation;
                \* the except clause answers with _error_response
                /\ response' = error_response("validation")
                /\ raised' = "validation"
                /\ UNCHANGED <<redis_data, local_cache, stored, last_set, prior>>
           ELSE LET resp == BuildResponse(request, available_providers, results)
                IN /\ response' = resp
                   /\ raised' = "none"
                   /\ IF UsesCache(request)
                          THEN   LET put == cache_set(request, resp)
                                 IN /\ redis_data' = put.redis
                                    /\ local_cache' = put.local
                                    /\ stored' = ~CacheDisabled(request)
                                    /\ last_set' =
                                         IF CacheDisabled(request) THEN last_set
                                         ELSE [k \in DOMAIN last_set
                                                     \cup {generate_cache_key(request)} |->
                                                 IF k = generate_cache_key(request)
                                                     THEN resp ELSE last_set[k]]
                                    /\ prior' =
                                         IF CacheDisabled(request) \/ resp.status = "error"
                                             THEN prior
                                             ELSE [r \in DOMAIN prior \cup {request} |->
                                                     IF r = request THEN now
                                                     ELSE prior[r]]
                          ELSE UNCHANGED <<redis_data, local_cache, stored, last_set, prior>>
    /\ UNCHANGED <<now, bvars, xvars, health_status, redis_client, request,
                   available_providers, results, start_time, late, from_cache, repeat>>

\* the caller has the response
Return ==
    /\ rpc = "done"
    /\ rpc' = "idle"
    /\ ClearRequest
    /\ UNCHANGED <<now, bvars, xvars, health_status, redis_client, redis_data, local_cache,
                   last_set, prior>>

\* the clock, within the horizon of the router's runs
RouterTick ==
    /\ now < MaxRouterTime
    /\ now' = now + 1
    /\ UNCHANGED <<bvars, rvars, xvars>>

HealthStatuses == {"healthy", "unhealthy"}

RouterIdle ==
    /\ health_status = [n \in Range(Registry) |-> "none"]
    /\ redis_data = <<>>
    /\ local_cache = <<>>
    /\ rpc = "idle"
    /\ request = None
    /\ available_providers = <<>>
    /\ results = <<>>
    /\ start_time = NoTime
    /\ response = None
    /\ late = <<>>
    /\ from_cache = FALSE
    /\ stored = FALSE
    /\ last_set = <<>>
    /\ prior = <<>>
    /\ repeat = "first"
    /\ raised = "none"

\* a breaker left alone
BreakerIdle ==
    /\ failure_threshold = 1
    /\ recovery_timeout = 1
    /\ half_open_max_calls = 1
    /\ failure_count = 0
    /\ last_failure_time = NoTime
    /\ state = "closed"
    /\ half_open_calls = 0
    /\ pc = [c \in Callers |-> "idle"]
    /\ evt = [kind |-> "init", from |-> "closed", flip |-> FALSE]
    /\ opened_at = NoTime
    /\ consec = 0

(***************************************************************************)
(* core/adapter.py: _execute_request under tenacity's retry decorator.     *)
(* The adapter is configured without rate_limits (rate_limiter is None);   *)
(* it is caller 1 of its breaker.                                          *)
(***************************************************************************)

\* what _make_request raises: httpx transport errors and raise_for_status
Errors == {"network", "http500", "http429", "http401", "http404"}

\* stop_after_attempt(3)
stop_after_attempt == 3

\* wait_exponential(multiplier=1, min=2, max=10), after attempt n
wait_exponential(n) ==
    LET exp == 2 ^ (n - 1)
        capped == IF exp < 10 THEN exp ELSE 10
    IN IF capped > 2 THEN capped ELSE 2

AdapterIdle ==
    /\ apc = "idle"
    /\ attempt_number = 0
    /\ wake = 0
    /\ last_error = "none"
    /\ adapter_result = "none"
    /\ retried_after = {}
    /\ failures_before = 0

\* an adapter left alone
AdapterUnused ==
    /\ AdapterIdle
    /\ has_breaker = TRUE
    /\ max_attempts = 3

\* _execute_request is called
ExecuteRequest ==
    /\ apc = "idle"
    /\ apc' = "ready"
    /\ attempt_number' = 1
    /\ wake' = now
    /\ last_error' = "none"
    /\ adapter_result' = "none"
    /\ retried_after' = {}
    /\ failures_before' = failure_count
    /\ UNCHANGED <<now, bvars, rvars, not_avars, has_breaker, max_attempts>>

\* tenacity after an attempt raised error: any exception is retried until
\* stop_after_attempt, then RetryError is raised
AttemptRaised(error) ==
    /\ last_error' = error
    /\ IF attempt_number >= stop_after_attempt
           THEN /\ apc' = "done"
                /\ adapter_result' = "retry_error"
                /\ UNCHANGED <<attempt_number, wake, retried_after>>
           ELSE /\ apc' = "ready"
                /\ attempt_number' = attempt_number + 1
                /\ wake' = now + wait_exponential(attempt_number)
                /\ retried_after' = retried_after \cup {error}
                /\ UNCHANGED adapter_result

\* an attempt starts: circuit_breaker.call up to the wrapped _make_request
AdapterCall ==
    /\ apc = "ready"
    /\ now >= wake
    /\ IF has_breaker /\ state = "open" /\ ~should_attempt_reset
           THEN /\ Event("reject")
                /\ AttemptRaised("circuit_open")
                /\ UNCHANGED <<state, half_open_calls, pc>>
           ELSE /\ IF has_breaker
                       THEN /\ Event("admit")
                            /\ pc' = [pc EXCEPT ![1] = "running"]
                            /\ IF state = "open"
                                   THEN state' = "half_open" /\ half_open_calls' = 0
                                   ELSE UNCHANGED <<state, half_open_calls>>
                       ELSE UNCHANGED <<state, half_open_calls, pc, evt>>
                /\ apc' = "running"
                /\ UNCHANGED <<attempt_number, wake, last_error, adapter_result,
                               retried_after>>
    /\ UNCHANGED <<now, failure_threshold, recovery_timeout, half_open_max_calls,
                   failure_count, last_failure_time, opened_at, consec, rvars,
                   not_avars, has_breaker, max_attempts, failures_before>>

\* _make_request returns the body
AdapterReturns ==
    /\ apc = "running"
    /\ IF has_breaker
           THEN /\ on_success
                /\ pc' = [pc EXCEPT ![1] = "idle"]
                /\ Event("success")
                /\ consec' = 0
           ELSE UNCHANGED <<state, failure_count, half_open_calls, pc, evt, consec>>
    /\ apc' = "done"
    /\ adapter_result' = "ok"
    /\ UNCHANGED <<now, failure_threshold, recovery_timeout, half_open_max_calls,
                   last_failure_time, opened_at, rvars, not_avars, has_breaker,
                   max_attempts, failures_before, attempt_number, wake, last_error, retried_after>>

\* _make_request raises
AdapterRaises(error) ==
    /\ apc = "running"
    /\ IF has_breaker
           THEN /\ on_failure
                /\ UNCHANGED half_open_calls
                /\ pc' = [pc EXCEPT ![1] = "idle"]
                /\ Event("failure")
                /\ consec' = consec + 1
                /\ TrackOpened
           ELSE UNCHANGED <<state, failure_count, last_failure_time, half_open_calls,
                            pc, evt, consec, opened_at>>
    /\ AttemptRaised(error)
    /\ UNCHANGED <<now, failure_threshold, recovery_timeout, half_open_max_calls,
                   rvars, not_avars, has_breaker, max_attempts, failures_before>>

\* the caller has the result or the RetryError
AdapterDone ==
    /\ apc = "done"
    /\ apc' = "idle"
    /\ UNCHANGED <<now, bvars, rvars, not_avars, has_breaker, max_attempts, failures_before,
                   attempt_number, wake, last_error, adapter_result, retried_after>>

AdapterTick ==
    /\ now < MaxTime
    /\ now' = now + 1
    /\ UNCHANGED <<bvars, rvars, xvars>>

AdapterNext ==
    \/ ExecuteRequest
    \/ AdapterCall
    \/ AdapterReturns
    \/ \E error \in Errors : AdapterRaises(error)
    \/ AdapterDone
    \/ AdapterTick

(***************************************************************************)
(* aggregator.py: aggregate and reciprocal_rank_fusion on their own.       *)
(* Fused scores are exact: they are kept in units of 1/RrfUnit.            *)
(***************************************************************************)

\* the sequences over S of length at most n
SeqsUpTo(S, n) == UNION {[1..m -> S] : m \in 0..n}

\* the results given to aggregate
AggregateInputs ==
    SeqsUpTo({Result(id, fp, score, "google", 0) :
                 id \in {"a", "b"}, fp \in {"u1", "u2"}, score \in {4, 8}}, MaxResults)

\* the fingerprints of the results given to the fusion
FusionHashes == {"x", "y", "z"}

\* the providers of the lists given to the fusion
ListProvider(i) == <<"p1", "p2", "p3", "p4">>[i]

\* the lists given to reciprocal_rank_fusion: list i holds provider i's results
FusionInputs ==
    {[i \in DOMAIN hs |->
         [r \in DOMAIN hs[i] |-> Result(hs[i][r], hs[i][r], 8, ListProvider(i), 0)]] :
        hs \in SeqsUpTo(SeqsUpTo(FusionHashes, MaxListLen), MaxLists)}

\* reciprocal_rank_fusion's k
rrf_k == 60

RECURSIVE RrfProduct(_)
RrfProduct(n) == IF n = 0 THEN 1 ELSE (rrf_k + n) * RrfProduct(n - 1)

\* the unit of the fused scores: 1/RrfUnit
RrfUnit == RrfProduct(MaxListLen)

\* 1.0 / (k + rank)
RrfTerm(rank) == RrfUnit \div (rrf_k + rank)

\* scores and result_map after the loop over one list from rank on: a dict in
\* insertion order, as the first result of each hash with its score so far
RECURSIVE RrfList(_, _, _)
RrfList(scores, result_list, rank) ==
    IF rank > Len(result_list) THEN scores
    ELSE LET result == result_list[rank]
             seen == {i \in DOMAIN scores :
                          get_content_hash(scores[i]) = get_content_hash(result)}
             added == IF seen = {}
                          THEN Append(scores, [result EXCEPT !.score = RrfTerm(rank)])
                          ELSE LET i == CHOOSE j \in seen : TRUE
                               IN [scores EXCEPT ![i].score = @ + RrfTerm(rank)]
         IN RrfList(added, result_list, rank + 1)

RECURSIVE RrfLists(_, _)
RrfLists(scores, lists) ==
    IF lists = <<>> THEN scores
    ELSE RrfLists(RrfList(scores, Head(lists), 1), Tail(lists))

\* reciprocal_rank_fusion, whose sum forgets the ranks
reciprocal_rank_fusion_count(lists) ==
    SortByScore([i \in DOMAIN RrfLists(<<>>, lists) |->
                    [RrfLists(<<>>, lists)[i] EXCEPT !.score =
                         RrfTerm(1) * Cardinality({l \in DOMAIN lists :
                             \E r \in DOMAIN lists[l] :
                                 get_content_hash(lists[l][r])
                                     = get_content_hash(RrfLists(<<>>, lists)[i])})]])

\* reciprocal_rank_fusion: sorted(scores.items(), by the score, reverse=True)
reciprocal_rank_fusion(lists) == SortByScore(RrfLists(<<>>, lists))

AggregatorIdle ==
    /\ gpc = "input"
    /\ agg_results = <<>>
    /\ agg_deduplicate = FALSE
    /\ agg_returned = <<>>
    /\ result_lists = <<>>
    /\ fused = <<>>

\* aggregate(results, deduplicate)
Aggregate(dedup) ==
    /\ gpc = "input"
    /\ gpc' = "aggregated"
    /\ agg_deduplicate' = dedup
    /\ agg_returned' = aggregate(agg_results, dedup)
    /\ UNCHANGED <<now, bvars, rvars, not_gvars, agg_results, result_lists, fused>>

\* reciprocal_rank_fusion(result_lists)
Fuse ==
    /\ gpc = "input"
    /\ gpc' = "fused"
    /\ fused' = reciprocal_rank_fusion(result_lists)
    /\ UNCHANGED <<now, bvars, rvars, not_gvars, agg_results, agg_deduplicate,
                   agg_returned, result_lists>>

(***************************************************************************)
(* core/rate_limiter.py: TokenBucket.  Its callers are coroutines of one   *)
(* event loop: what lies between two awaits is one step.                   *)
(***************************************************************************)

BucketTimes == 0..MaxBucketTime

Min(a, b) == IF a < b THEN a ELSE b

\* _refill that does not cap the tokens at the capacity
refill_uncapped(ts) == ts + (now - last_refill) * refill_rate

\* _refill: the tokens after it (last_refill becomes now)
refill(ts) == Min(capacity, ts + (now - last_refill) * refill_rate)

\* asyncio.sleep(tokens_needed / refill_rate) ends at a tick
wait_time(tokens_needed) == (tokens_needed + refill_rate - 1) \div refill_rate

Grant(n) == grants' = [grants EXCEPT ![now] = @ + n]

Awake == [st |-> "idle", n |-> 0, wake |-> 0]

BucketInit ==
    /\ tokens = capacity
    /\ last_refill = 0
    /\ tpc = [c \in Callers |-> Awake]
    /\ grants = [t \in BucketTimes |-> 0]

\* a bucket left alone
BucketUnused ==
    /\ capacity = 1
    /\ refill_rate = 1
    /\ BucketInit

\* acquire(n): one turn of its loop, from the lock to the return or the sleep
AcquireTurn(c, n) ==
    /\ last_refill' = now
    /\ IF refill(tokens) >= n
           THEN /\ tokens' = refill(tokens) - n
                /\ Grant(n)
                /\ tpc' = [tpc EXCEPT ![c] = Awake]
           ELSE /\ tokens' = refill(tokens)
                /\ tpc' = [tpc EXCEPT ![c] =
                              [st |-> "asleep", n |-> n,
                               wake |-> now + wait_time(n - refill(tokens))]]
                /\ UNCHANGED grants
    /\ UNCHANGED <<now, bvars, rvars, not_tvars, capacity, refill_rate>>

\* a coroutine calls acquire(n)
Acquire(c, n) ==
    /\ tpc[c].st = "idle"
    /\ AcquireTurn(c, n)

\* the sleep of a coroutine in acquire ends: the next turn of its loop
AcquireWakes(c) ==
    /\ tpc[c].st = "asleep"
    /\ now >= tpc[c].wake
    /\ AcquireTurn(c, tpc[c].n)

\* try_acquire(n)
TryAcquire(n) ==
    /\ last_refill' = now
    /\ IF refill(tokens) >= n
           THEN tokens' = refill(tokens) - n /\ Grant(n)
           ELSE tokens' = refill(tokens) /\ UNCHANGED grants
    /\ UNCHANGED <<now, bvars, rvars, not_tvars, capacity, refill_rate, tpc>>

BucketTick ==
    /\ now < MaxBucketTime
    /\ now' = now + 1
    /\ UNCHANGED <<bvars, rvars, xvars>>

BucketNext ==
    \/ \E c \in Callers, n \in 1..MaxTokens : Acquire(c, n)
    \/ \E c \in Callers : AcquireWakes(c)
    \/ \E n \in 1..MaxTokens : TryAcquire(n)
    \/ BucketTick

(***************************************************************************)
(* query_processor.py: process                                             *)
(***************************************************************************)

\* the tasks process gives to asyncio.gather, in their order
Subtasks == <<"spell_check", "extract_entities", "classify_intent",
              "extract_keywords", "generate_embedding">>

\* what a task may return: spell_check the query as it was or corrected,
\* classify_intent an intent with or without a filter of its own
SubtaskValues(t) ==
    IF t = "spell_check" THEN {"same", "corrected"}
    ELSE IF t = "classify_intent" THEN {"general", "news"}
    ELSE {"value"}

ProcessorIdle ==
    /\ qpc = "idle"
    /\ enrichments = <<>>
    /\ expanded = Pending
    /\ processed_query = None

\* process(query) up to the gather
Process ==
    /\ qpc = "idle"
    /\ qpc' = "gathering"
    /\ enrichments' = [i \in DOMAIN Subtasks |-> Pending]
    /\ expanded' = Pending
    /\ processed_query' = None
    /\ UNCHANGED <<now, bvars, rvars, not_qvars>>

SubtaskReturns(i) ==
    /\ qpc = "gathering"
    /\ enrichments[i] = Pending
    /\ \E v \in SubtaskValues(Subtasks[i]) :
           enrichments' = [enrichments EXCEPT ![i] = Returned(v)]
    /\ UNCHANGED <<now, bvars, rvars, not_qvars, qpc, expanded, processed_query>>

SubtaskRaises(i) ==
    /\ qpc = "gathering"
    /\ enrichments[i] = Pending
    /\ enrichments' = [enrichments EXCEPT ![i] = Raised]
    /\ UNCHANGED <<now, bvars, rvars, not_qvars, qpc, expanded, processed_query>>

\* gather(return_exceptions=True) has every outcome: process awaits expand_query
ProcessGathered ==
    /\ qpc = "gathering"
    /\ \A i \in DOMAIN enrichments : enrichments[i] # Pending
    /\ qpc' = "expanding"
    /\ UNCHANGED <<now, bvars, rvars, not_qvars, enrichments, expanded, processed_query>>

\* results[i] if not isinstance(results[i], Exception) else None
Enrichment(i) ==
    IF enrichments[i] = Raised THEN <<>> ELSE <<enrichments[i].list>>

\* generate_filters(entities, intent): the extracted entities carry no date,
\* location or organization
generate_filters(entities, intent) ==
    IF intent = <<"news">> THEN <<"document_type">> ELSE <<>>

\* expand_query returns: the ProcessedQuery is built and returned
ExpandReturns ==
    /\ qpc = "expanding"
    /\ qpc' = "done"
    /\ expanded' = Returned("value")
    /\ processed_query' =
           [corrected |-> IF Enrichment(1) = <<"same">> THEN <<>> ELSE Enrichment(1),
            expanded |-> <<"value">>,
            entities |-> Enrichment(2),
            intent |-> Enrichment(3),
            embedding |-> Enrichment(5),
            filters |-> generate_filters(Enrichment(2), Enrichment(3)),
            keywords |-> Enrichment(4)]
    /\ UNCHANGED <<now, bvars, rvars, not_qvars, enrichments>>

\* expand_query raises: nothing catches it in process
ExpandRaises ==
    /\ qpc = "expanding"
    /\ qpc' = "raised"
    /\ expanded' = Raised
    /\ UNCHANGED <<now, bvars, rvars, not_qvars, enrichments, processed_query>>

\* the caller of process has the ProcessedQuery or the exception
ProcessEnds ==
    /\ qpc \in {"done", "raised"}
    /\ qpc' = "idle"
    /\ enrichments' = <<>>
    /\ expanded' = Pending
    /\ processed_query' = None
    /\ UNCHANGED <<now, bvars, rvars, not_qvars>>

ProcessorNext ==
    \/ Process
    \/ \E i \in DOMAIN Subtasks : SubtaskReturns(i)
    \/ \E i \in DOMAIN Subtasks : SubtaskRaises(i)
    \/ ProcessGathered
    \/ ExpandReturns
    \/ ExpandRaises
    \/ ProcessEnds

(***************************************************************************)
(* core/rate_limiter.py: SlidingWindowRateLimiter                          *)
(***************************************************************************)

WindowTimes == 0..MaxWindowTime

Admit == admissions' = [admissions EXCEPT ![now] = @ + 1]

WindowInit ==
    /\ requests = <<>>
    /\ wpc = [c \in Callers |-> Awake]
    /\ admissions = [t \in WindowTimes |-> 0]
    /\ last_try = None

\* a limiter left alone
WindowUnused ==
    /\ max_requests = 1
    /\ window_seconds = 1
    /\ requests = <<>>
    /\ wpc = [c \in Callers |-> Awake]
    /\ admissions = <<>>
    /\ last_try = None

\* the condition of the eviction loop, for the oldest timestamp, evicting one tick
\* early
expired_early(oldest) == oldest <= now - window_seconds

\* the condition of the eviction loop, for the oldest timestamp
expired(oldest) == oldest < now - window_seconds

RECURSIVE evict(_)
\* the eviction loop: popleft while the oldest timestamp is expired
evict(queue) ==
    IF queue # <<>> /\ expired(Head(queue)) THEN evict(Tail(queue)) ELSE queue

\* acquire: one call, from the lock to the return or the sleep
WindowAcquireTurn(c) ==
    /\ IF Len(evict(requests)) < max_requests
           THEN /\ requests' = Append(evict(requests), now)
                /\ Admit
                /\ wpc' = [wpc EXCEPT ![c] = Awake]
           ELSE /\ requests' = evict(requests)
                /\ wpc' = [wpc EXCEPT ![c] =
                              [st |-> "asleep", n |-> 1,
                               wake |-> Head(evict(requests)) + window_seconds]]
                /\ UNCHANGED admissions
    /\ UNCHANGED <<now, bvars, rvars, not_wvars, max_requests, window_seconds,
                   last_try>>

\* a coroutine calls acquire()
WindowAcquire(c) ==
    /\ wpc[c].st = "idle"
    /\ WindowAcquireTurn(c)

\* the sleep of a coroutine in acquire ends: it calls acquire() again
WindowAcquireWakes(c) ==
    /\ wpc[c].st = "asleep"
    /\ now >= wpc[c].wake
    /\ WindowAcquireTurn(c)

\* try_acquire()
WindowTryAcquire ==
    /\ IF Len(evict(requests)) < max_requests
           THEN /\ requests' = Append(evict(requests), now)
                /\ Admit
           ELSE /\ requests' = evict(requests)
                /\ UNCHANGED admissions
    /\ last_try' = [at |-> now, held |-> requests,
                    returned |-> Len(evict(requests)) < max_requests]
    /\ UNCHANGED <<now, bvars, rvars, not_wvars, max_requests, window_seconds,
                   wpc>>

WindowTick ==
    /\ now < MaxWindowTime
    /\ now' = now + 1
    /\ UNCHANGED <<bvars, rvars, xvars>>

WindowNext ==
    \/ \E c \in Callers : WindowAcquire(c)
    \/ \E c \in Callers : WindowAcquireWakes(c)
    \/ WindowTryAcquire
    \/ WindowTick

\* components left alone
\* no method was called directly
NoCall ==
    /\ call_args = None
    /\ call_result = None

OthersIdle ==
    /\ AdapterUnused
    /\ AggregatorIdle
    /\ BucketUnused
    /\ WindowUnused
    /\ ProcessorIdle
    /\ NoCall

InitAdapter ==
    /\ now = 0
    /\ BreakerInit
    /\ redis_client = "none"
    /\ RouterIdle
    /\ NoCall
    /\ AdapterIdle
    /\ AggregatorIdle
    /\ BucketUnused
    /\ WindowUnused
    /\ ProcessorIdle
    /\ has_breaker \in BOOLEAN
    /\ max_attempts \in 1..MaxAttempts

SpecAdapter == InitAdapter /\ [][AdapterNext]_vars

InitAggregate ==
    /\ now = 0
    /\ BreakerIdle
    /\ redis_client = "none"
    /\ RouterIdle
    /\ NoCall
    /\ AdapterUnused
    /\ BucketUnused
    /\ WindowUnused
    /\ ProcessorIdle
    /\ gpc = "input"
    /\ agg_results \in AggregateInputs
    /\ agg_deduplicate = FALSE
    /\ agg_returned = <<>>
    /\ result_lists = <<>>
    /\ fused = <<>>

AggregateNext == \E dedup \in BOOLEAN : Aggregate(dedup)

SpecAggregate == InitAggregate /\ [][AggregateNext]_vars

InitFusion ==
    /\ now = 0
    /\ BreakerIdle
    /\ redis_client = "none"
    /\ RouterIdle
    /\ NoCall
    /\ AdapterUnused
    /\ BucketUnused
    /\ WindowUnused
    /\ ProcessorIdle
    /\ gpc = "input"
    /\ agg_results = <<>>
    /\ agg_deduplicate = FALSE
    /\ agg_returned = <<>>
    /\ result_lists \in FusionInputs
    /\ fused = <<>>

FusionNext == Fuse

SpecFusion == InitFusion /\ [][FusionNext]_vars

InitBucket ==
    /\ now = 0
    /\ BreakerIdle
    /\ redis_client = "none"
    /\ RouterIdle
    /\ NoCall
    /\ AdapterUnused
    /\ AggregatorIdle
    /\ ProcessorIdle
    /\ capacity \in 1..MaxCapacity
    /\ refill_rate \in 1..MaxRate
    /\ BucketInit
    /\ WindowUnused

SpecBucket == InitBucket /\ [][BucketNext]_vars

InitWindow ==
    /\ now = 0
    /\ BreakerIdle
    /\ redis_client = "none"
    /\ RouterIdle
    /\ NoCall
    /\ AdapterUnused
    /\ AggregatorIdle
    /\ BucketUnused
    /\ ProcessorIdle
    /\ max_requests \in 1..MaxRequests
    /\ window_seconds \in 1..MaxWindow
    /\ WindowInit

SpecWindow == InitWindow /\ [][WindowNext]_vars

InitProcessor ==
    /\ now = 0
    /\ BreakerIdle
    /\ redis_client = "none"
    /\ RouterIdle
    /\ NoCall
    /\ AdapterUnused
    /\ AggregatorIdle
    /\ BucketUnused
    /\ WindowUnused
    /\ ProcessorIdle

SpecProcessor == InitProcessor /\ [][ProcessorNext]_vars

(***************************************************************************)
(* providers/manager.py: get_available_providers called directly           *)
(***************************************************************************)

\* the names a caller may ask for: the registered ones and one that is not
NamesTried == Range(Registry) \cup {"neo4j"}

RequestedTried == SeqsUpTo(NamesTried, MaxRequested)

\* the statuses check_provider_health may record
ManagerStatuses == {"healthy", "degraded", "unhealthy"}

\* get_available_providers(requested_providers) is called and returns
GetAvailableProviders(requested) ==
    /\ call_args' = [op |-> "get_available_providers", requested |-> requested,
                     health |-> health_status]
    /\ call_result' = get_available_providers(requested)
    /\ UNCHANGED <<now, bvars, rvars, not_cvars>>

\* what adapter.health_check() may do: report one of the statuses, or raise
HealthReports == ManagerStatuses \cup {"raise"}

\* the status check_provider_health records: slow stands for latency_ms > 5000
recorded_status(reported, slow) ==
    IF reported = "raise" THEN "unhealthy"
    ELSE IF slow THEN "degraded"
    ELSE reported

\* check_provider_health(name) of a registered provider is called and returns
CheckHealth(n, reported, slow) ==
    /\ call_args' = [op |-> "check_provider_health", name |-> n,
                     reported |-> reported, slow |-> slow]
    /\ call_result' = recorded_status(reported, slow)
    /\ health_status' = [health_status EXCEPT ![n] = recorded_status(reported, slow)]
    /\ UNCHANGED <<now, bvars, not_cvars, redis_client, redis_data, local_cache, rpc,
                   request, available_providers, results, start_time, response, late,
                   from_cache, stored, last_set, prior, repeat, raised>>

ManagerNext ==
    \/ \E n \in Range(Registry), reported \in HealthReports, slow \in BOOLEAN :
           CheckHealth(n, reported, slow)
    \/ \E requested \in RequestedTried : GetAvailableProviders(requested)

InitManager ==
    /\ now = 0
    /\ BreakerIdle
    /\ redis_client = "none"
    /\ RouterIdle
    /\ OthersIdle

SpecManager == InitManager /\ [][ManagerNext]_vars

(***************************************************************************)
(* router.py: vector_search, in a deployment with a vector database        *)
(***************************************************************************)

\* ProviderManager.adapters of that deployment, in insertion order
VectorRegistry == <<"google", "pinecone">>

\* configs[name].type
provider_type(n) == IF n = "pinecone" THEN "vector_db" ELSE "search_engine"

\* get_available_providers(requested_providers, provider_type)
get_available_providers_of_type(requested, type) ==
    SelectSeq(VectorRegistry, LAMBDA n :
        /\ (requested = <<>> \/ n \in Range(requested))
        /\ provider_type(n) = type
        /\ health_status[n] \in {"healthy", "degraded", "none"})

\* VectorSearchRequest; vector and text say whether the field is given
VectorSearchRequest(list, names, vector, text) ==
    [provider |-> [list |-> list, names |-> names], vector |-> vector, text |-> text]

VectorRequests ==
    {VectorSearchRequest(l[1], l[2], vt[1], vt[2]) :
        l \in {<<FALSE, <<"pinecone">> >>, <<FALSE, <<"google">> >>,
               <<TRUE, <<"pinecone", "google">> >>, <<TRUE, <<>> >>},
        vt \in {<<TRUE, FALSE>>, <<FALSE, TRUE>>, <<FALSE, FALSE>>}}

\* what adapter.vector_search of a provider may return
VectorResults(p) ==
    {<<>>, <<Result("v1", "u1", 12, p, 0), Result("v2", "u1", 8, p, 0)>>}

\* vector_search(request) up to the gather
VectorSearch(req) ==
    /\ rpc = "idle"
    /\ request' = req
    /\ start_time' = now
    /\ \E embedded \in BOOLEAN :
         IF ~req.vector /\ req.text /\ ~embedded
             THEN \* query_processor.generate_embedding raised
                  /\ response' = error_response("embedding")
                  /\ raised' = "embedding"
                  /\ rpc' = "done"
                  /\ UNCHANGED <<available_providers, results>>
         ELSE IF ~req.vector /\ ~req.text
             THEN /\ response' = error_response("No vector or text provided")
                  /\ raised' = "none"
                  /\ rpc' = "done"
                  /\ UNCHANGED <<available_providers, results>>
         ELSE LET providers == get_available_providers_of_type(
                                   normalize_providers(req.provider), "vector_db")
              IN /\ available_providers' = providers
                 /\ results' = [i \in DOMAIN providers |-> Pending]
                 /\ rpc' = "gathering"
                 /\ UNCHANGED <<response, raised>>
    /\ UNCHANGED <<now, bvars, xvars, health_status, redis_client, redis_data,
                   local_cache, late, from_cache, stored, last_set, prior, repeat>>

\* a provider's task ends: adapter.vector_search returned a list or raised
VectorTaskReturns(i) ==
    /\ rpc = "gathering"
    /\ i \in DOMAIN results
    /\ results[i] = Pending
    /\ \E list \in VectorResults(available_providers[i]) :
           results' = [results EXCEPT ![i] = Returned(list)]
    /\ UNCHANGED <<now, bvars, xvars, health_status, redis_client, redis_data,
                   local_cache, rpc, request, available_providers, start_time,
                   response, late, from_cache, stored, last_set, prior, repeat, raised>>

VectorTaskRaises(i) ==
    /\ rpc = "gathering"
    /\ i \in DOMAIN results
    /\ results[i] = Pending
    /\ results' = [results EXCEPT ![i] = Raised]
    /\ UNCHANGED <<now, bvars, xvars, health_status, redis_client, redis_data,
                   local_cache, rpc, request, available_providers, start_time,
                   response, late, from_cache, stored, last_set, prior, repeat, raised>>

\* lines 213-238: from the gathered outcomes to the SearchResponse
BuildVectorResponse(providers, outcomes) ==
    LET idx == [i \in DOMAIN providers |-> i]
        ok == SelectSeq(idx, LAMBDA i : outcomes[i].kind = "returned")
        bad == SelectSeq(idx, LAMBDA i : outcomes[i].kind = "exception")
        all_results == Flatten([k \in DOMAIN ok |-> outcomes[ok[k]].list])
        failed_providers == [k \in DOMAIN bad |-> providers[bad[k]]]
        successful_providers == [k \in DOMAIN ok |-> providers[ok[k]]]
    IN [SearchResponse(ResponseStatus(failed_providers, successful_providers),
                       aggregate(all_results, TRUE),
                       successful_providers, failed_providers, <<>>)
           EXCEPT !.provider_used = <<>>]

\* the gather has every outcome (at once, when no task was created)
VectorGathered ==
    /\ rpc = "gathering"
    /\ \A i \in DOMAIN results : results[i] # Pending
    /\ rpc' = "done"
    /\ response' = BuildVectorResponse(available_providers, results)
    /\ raised' = "none"
    /\ UNCHANGED <<now, bvars, xvars, health_status, redis_client, redis_data,
                   local_cache, request, available_providers, results, start_time,
                   late, from_cache, stored, last_set, prior, repeat>>

VectorNext ==
    \/ \E req \in VectorRequests : VectorSearch(req)
    \/ \E i \in 1..Len(VectorRegistry) : VectorTaskReturns(i)
    \/ \E i \in 1..Len(VectorRegistry) : VectorTaskRaises(i)
    \/ VectorGathered
    \/ Return
    \/ \E n \in Range(VectorRegistry), status \in HealthStatuses :
           CheckProviderHealth(n, status)

\* a router of that deployment, left alone
VectorRouterIdle ==
    /\ health_status = [n \in Range(VectorRegistry) |-> "none"]
    /\ redis_client = "none"
    /\ redis_data = <<>>
    /\ local_cache = <<>>
    /\ rpc = "idle"
    /\ request = None
    /\ available_providers = <<>>
    /\ results = <<>>
    /\ start_time = NoTime
    /\ response = None
    /\ late = <<>>
    /\ from_cache = FALSE
    /\ stored = FALSE
    /\ last_set = <<>>
    /\ prior = <<>>
    /\ repeat = "first"
    /\ raised = "none"

InitVector ==
    /\ now = 0
    /\ BreakerIdle
    /\ VectorRouterIdle
    /\ OthersIdle

SpecVector == InitVector /\ [][VectorNext]_vars

(***************************************************************************)
(* router.py: hybrid_search, in the same deployment.  Weights are in       *)
(* halves: 1 stands for 0.5, 2 for 1.0.                                    *)
(***************************************************************************)

\* HybridStrategy; vector and text say whether the field is given
HybridStrategy(type, provider, weight, vector, text) ==
    [type |-> type, provider |-> provider, weight |-> weight,
     vector |-> vector, text |-> text]

StrategiesTried ==
    {HybridStrategy("keyword", "google", 2, FALSE, FALSE),
     HybridStrategy("vector", "pinecone", 1, TRUE, FALSE),
     HybridStrategy("vector", "pinecone", 2, FALSE, TRUE),
     HybridStrategy("vector", "pinecone", 1, FALSE, FALSE),
     HybridStrategy("keyword", "neo4j", 2, FALSE, FALSE),
     HybridStrategy("knowledge_graph", "google", 1, FALSE, FALSE)}

FusionMethods == {"reciprocal_rank", "weighted_sum", "max_score"}

\* HybridSearchRequest
HybridSearchRequest(strategies, fusion_method) ==
    [strategies |-> strategies, fusion_method |-> fusion_method]

HybridRequests ==
    {HybridSearchRequest(ss, f) :
        ss \in SeqsUpTo(StrategiesTried, MaxStrategies), f \in FusionMethods}

\* get_adapter(name) is not None
HasAdapter(name) == name \in Range(VectorRegistry)

\* the strategy calls generate_embedding
NeedsEmbedding(st) ==
    HasAdapter(st.provider) /\ st.type = "vector" /\ ~st.vector /\ st.text

\* a task is appended to strategy_tasks for the strategy
HasTask(st) ==
    /\ HasAdapter(st.provider)
    /\ \/ st.type = "keyword"
       \/ st.type = "vector" /\ (st.vector \/ st.text)

\* strategy_weights: one weight per strategy with an adapter
strategy_weights(strategies) ==
    LET with == SelectSeq(strategies, LAMBDA st : HasAdapter(st.provider))
    IN [i \in DOMAIN with |-> with[i].weight]

\* what adapter.search or adapter.vector_search of a provider may return
HybridResults(p) ==
    IF p = "google"
        THEN {<<Result("k1", "x", 8, "google", 0), Result("k2", "y", 4, "google", 0)>>}
        ELSE {<<Result("p1", "y", 12, "pinecone", 0), Result("p2", "z", 4, "pinecone", 0)>>}

\* weighted_sum_fusion: scores and result_map after one more list
RECURSIVE WeightedSumList(_, _, _)
WeightedSumList(acc, result_list, at) ==
    IF at > Len(result_list) THEN acc
    ELSE LET result == result_list[at]
             seen == {i \in DOMAIN acc :
                          get_content_hash(acc[i].result) = get_content_hash(result)}
             added ==
                 IF seen = {}
                     THEN Append(acc, [result |-> result, score |-> result.score])
                     ELSE LET i == CHOOSE j \in seen : TRUE
                          IN [acc EXCEPT
                                 ![i] = [result |-> IF result.score > acc[i].result.score
                                                        THEN result ELSE acc[i].result,
                                         score |-> acc[i].score + result.score]]
         IN WeightedSumList(added, result_list, at + 1)

RECURSIVE WeightedSumLists(_, _)
WeightedSumLists(acc, lists) ==
    IF lists = <<>> THEN acc
    ELSE WeightedSumLists(WeightedSumList(acc, Head(lists), 1), Tail(lists))

\* the final ranked list of the fusions that keep a dict of scores
Ranked(acc) ==
    SortByScore([i \in DOMAIN acc |-> [acc[i].result EXCEPT !.score = acc[i].score]])

weighted_sum_fusion(lists) == Ranked(WeightedSumLists(<<>>, lists))

\* max_score_fusion: best_scores and result_map after one more list
RECURSIVE MaxScoreList(_, _, _)
MaxScoreList(acc, result_list, at) ==
    IF at > Len(result_list) THEN acc
    ELSE LET result == result_list[at]
             seen == {i \in DOMAIN acc :
                          get_content_hash(acc[i].result) = get_content_hash(result)}
             added ==
                 IF seen = {}
                     THEN Append(acc, [result |-> result, score |-> result.score])
                     ELSE LET i == CHOOSE j \in seen : TRUE
                          IN IF result.score > acc[i].score
                                 THEN [acc EXCEPT ![i] = [result |-> result,
                                                          score |-> result.score]]
                                 ELSE acc
         IN MaxScoreList(added, result_list, at + 1)

RECURSIVE MaxScoreLists(_, _)
MaxScoreLists(acc, lists) ==
    IF lists = <<>> THEN acc
    ELSE MaxScoreLists(MaxScoreList(acc, Head(lists), 1), Tail(lists))

max_score_fusion(lists) == Ranked(MaxScoreLists(<<>>, lists))

\* hybrid_search(request) up to the gather
HybridSearch(req) ==
    /\ rpc = "idle"
    /\ request' = req
    /\ start_time' = now
    /\ \E embedded \in BOOLEAN :
         IF ~embedded /\ \E i \in DOMAIN req.strategies : NeedsEmbedding(req.strategies[i])
             THEN \* query_processor.generate_embedding raised
                  /\ response' = error_response("embedding")
                  /\ raised' = "embedding"
                  /\ rpc' = "done"
                  /\ UNCHANGED <<available_providers, results>>
             ELSE LET tasks == SelectSeq(req.strategies, HasTask)
                  IN /\ available_providers' = [i \in DOMAIN tasks |-> tasks[i].provider]
                     /\ results' = [i \in DOMAIN tasks |-> Pending]
                     /\ rpc' = "gathering"
                     /\ UNCHANGED <<response, raised>>
    /\ UNCHANGED <<now, bvars, xvars, health_status, redis_client, redis_data,
                   local_cache, late, from_cache, stored, last_set, prior, repeat>>

\* a strategy's task ends: the adapter returned a list or raised
HybridTaskReturns(i) ==
    /\ rpc = "gathering"
    /\ i \in DOMAIN results
    /\ results[i] = Pending
    /\ \E list \in HybridResults(available_providers[i]) :
           results' = [results EXCEPT ![i] = Returned(list)]
    /\ UNCHANGED <<now, bvars, xvars, health_status, redis_client, redis_data,
                   local_cache, rpc, request, available_providers, start_time,
                   response, late, from_cache, stored, last_set, prior, repeat, raised>>

HybridTaskRaises(i) ==
    /\ rpc = "gathering"
    /\ i \in DOMAIN results
    /\ results[i] = Pending
    /\ results' = [results EXCEPT ![i] = Raised]
    /\ UNCHANGED <<now, bvars, xvars, health_status, redis_client, redis_data,
                   local_cache, rpc, request, available_providers, start_time,
                   response, late, from_cache, stored, last_set, prior, repeat, raised>>

\* lines 285-312: from the gathered outcomes to the SearchResponse
BuildHybridResponse(req, outcomes) ==
    LET idx == [i \in DOMAIN outcomes |-> i]
        ok == SelectSeq(idx, LAMBDA i : outcomes[i].kind = "returned")
        weights == strategy_weights(req.strategies)
        all_results ==
            [k \in DOMAIN ok |->
                [r \in DOMAIN outcomes[ok[k]].list |->
                    [outcomes[ok[k]].list[r] EXCEPT
                        !.score = (@ * weights[ok[k]]) \div 2]]]
        final_results ==
            IF req.fusion_method = "reciprocal_rank"
                THEN reciprocal_rank_fusion(all_results)
            ELSE IF req.fusion_method = "weighted_sum"
                THEN weighted_sum_fusion(all_results)
            ELSE max_score_fusion(all_results)
    IN [SearchResponse("success", final_results,
                       [i \in DOMAIN req.strategies |-> req.strategies[i].provider],
                       <<>>, <<>>)
           EXCEPT !.provider_used = <<>>]

\* the gather has every outcome (at once, when no task was created)
HybridGathered ==
    /\ rpc = "gathering"
    /\ \A i \in DOMAIN results : results[i] # Pending
    /\ rpc' = "done"
    /\ response' = BuildHybridResponse(request, results)
    /\ raised' = "none"
    /\ UNCHANGED <<now, bvars, xvars, health_status, redis_client, redis_data,
                   local_cache, request, available_providers, results, start_time,
                   late, from_cache, stored, last_set, prior, repeat>>

HybridNext ==
    \/ \E req \in HybridRequests : HybridSearch(req)
    \/ \E i \in 1..MaxStrategies : HybridTaskReturns(i)
    \/ \E i \in 1..MaxStrategies : HybridTaskRaises(i)
    \/ HybridGathered
    \/ Return
    \/ \E n \in Range(VectorRegistry), status \in HealthStatuses :
           CheckProviderHealth(n, status)

SpecHybrid == InitVector /\ [][HybridNext]_vars

RouterNext ==
    \/ \E req \in Requests : Search(req)
    \/ \E i \in 1..Len(Registry) : TaskReturns(i)
    \/ \E i \in 1..Len(Registry) : TaskRaises(i)
    \/ Gathered
    \/ Return
    \/ \E n \in Range(Registry), status \in HealthStatuses : CheckProviderHealth(n, status)
    \/ RouterTick

InitRouter ==
    /\ now = 0
    /\ BreakerIdle
    /\ redis_client \in {"none", "redis", "mock", "down"}
    /\ RouterIdle
    /\ OthersIdle

SpecRouter == InitRouter /\ [][RouterNext]_vars

(***************************************************************************)
(* router.py: search, when a collaborator given to the router raises.      *)
(* Everything from line 49 to line 159 is in one try block whose except    *)
(* clause (lines 161-167) answers with _error_response.                    *)
(***************************************************************************)

\* lines 50-52: cache_manager.get(request) raised
SearchCacheGetRaises(req) ==
    /\ rpc = "idle"
    /\ UsesCache(req)
    /\ request' = req
    /\ start_time' = now
    /\ stored' = FALSE
    /\ response' = error_response("cache get")
    /\ raised' = "cache get"
    /\ from_cache' = FALSE
    /\ rpc' = "done"
    /\ repeat' = IF req \notin DOMAIN prior THEN "first"
                  ELSE IF now < prior[req] + cache_ttl(req) THEN "within_ttl"
                  ELSE "after_ttl"
    /\ UNCHANGED <<now, bvars, xvars, health_status, redis_client, redis_data,
                   local_cache, available_providers, results, late, last_set, prior>>

\* lines 115-119: the gather has every outcome and aggregator.rerank raised
GatheredRerankRaises ==
    /\ rpc = "gathering"
    /\ \A i \in DOMAIN results : results[i] # Pending
    /\ request.options # None /\ request.options.rerank
    /\ rpc' = "done"
    /\ response' = error_response("rerank")
    /\ raised' = "rerank"
    /\ UNCHANGED <<now, bvars, xvars, health_status, redis_client, redis_data,
                   local_cache, request, available_providers, results, start_time,
                   late, from_cache, stored, last_set, prior, repeat>>

\* lines 156-157: the response was built and cache_manager.set raised
GatheredCacheSetRaises ==
    /\ rpc = "gathering"
    /\ \A i \in DOMAIN results : results[i] # Pending
    /\ ~HasFilters(request.query)
    /\ UsesCache(request)
    /\ rpc' = "done"
    /\ response' = error_response("cache set")
    /\ raised' = "cache set"
    /\ UNCHANGED <<now, bvars, xvars, health_status, redis_client, redis_data,
                   local_cache, request, available_providers, results, start_time,
                   late, from_cache, stored, last_set, prior, repeat>>

FaultyNext ==
    \/ \E req \in Requests : Search(req)
    \/ \E i \in 1..Len(Registry) : TaskReturns(i)
    \/ \E i \in 1..Len(Registry) : TaskRaises(i)
    \/ Gathered
    \/ Return
    \/ \E req \in Requests : SearchCacheGetRaises(req)
    \/ GatheredRerankRaises
    \/ GatheredCacheSetRaises

SpecFaulty == InitRouter /\ [][FaultyNext]_vars

(***************************************************************************)
(* cache.py: get and set called directly                                   *)
(***************************************************************************)

\* the requests that carry cache options
CacheRequests == {req \in Requests : UsesCache(req)}

\* the responses given to set
CacheResponses ==
    {SearchResponse("success", list, <<"bing">>, <<>>, <<>>) :
        list \in AdapterResults("bing")}
    \cup {SearchResponse("partial", <<>>, <<>>, <<"bing">>, <<>>)}

\* get(request) is called and returns
CacheGet(req) ==
    /\ call_args' = [op |-> "get", request |-> req, at |-> now,
                     client |-> redis_client, redis |-> redis_data,
                     local |-> local_cache]
    /\ call_result' = cache_get(req)
    /\ local_cache' = cache_get(req).local
    /\ UNCHANGED <<now, bvars, not_cvars, health_status, redis_client, redis_data,
                   rpc, request, available_providers, results, start_time, response,
                   late, from_cache, stored, last_set, prior, repeat, raised>>

\* set(request, response) is called and returns
CacheSet(req, resp) ==
    /\ call_args' = [op |-> "set", request |-> req, at |-> now,
                     client |-> redis_client, redis |-> redis_data,
                     local |-> local_cache]
    /\ call_result' = None
    /\ redis_data' = cache_set(req, resp).redis
    /\ local_cache' = cache_set(req, resp).local
    /\ UNCHANGED <<now, bvars, not_cvars, health_status, redis_client,
                   rpc, request, available_providers, results, start_time, response,
                   late, from_cache, stored, last_set, prior, repeat, raised>>

CacheNext ==
    \/ \E req \in CacheRequests : CacheGet(req)
    \/ \E req \in CacheRequests, resp \in CacheResponses : CacheSet(req, resp)
    \/ RouterTick

SpecCache == InitRouter /\ [][CacheNext]_vars

(***************************************************************************)
(* cache.py: _generate_cache_key called on two requests                    *)
(***************************************************************************)

\* SearchRequest.provider: one name, or a list of names in some order, a name
\* possibly listed twice
ProvidersTried ==
    {[list |-> FALSE, names |-> <<"google">>],
     [list |-> TRUE, names |-> <<"google">>],
     [list |-> TRUE, names |-> <<"google", "bing">>],
     [list |-> TRUE, names |-> <<"bing", "google">>],
     [list |-> TRUE, names |-> <<"google", "google">>]}

\* SearchRequest.options, with and without options.cache.key
KeyOptionsTried ==
    {None,
     DefaultOptions,
     [DefaultOptions EXCEPT !.limit = 1],
     [DefaultOptions EXCEPT !.cache = CacheOptions(TRUE, 1)],
     [DefaultOptions EXCEPT !.cache = [CacheOptions(TRUE, 1) EXCEPT !.key = [str |-> "k"]]],
     [DefaultOptions EXCEPT !.cache = [CacheOptions(TRUE, 1) EXCEPT !.key = [str |-> ""]]]}

KeyRequests ==
    {[provider |-> p, query |-> q, options |-> o] :
        p \in ProvidersTried, q \in Queries, o \in KeyOptionsTried}

\* _generate_cache_key is called on one request and on another, once in a run
GenerateCacheKeys(a, b) ==
    /\ call_args = None
    /\ call_args' = [op |-> "generate_cache_key", a |-> a, b |-> b]
    /\ call_result' = [a |-> generate_cache_key(a), b |-> generate_cache_key(b)]
    /\ UNCHANGED <<now, bvars, rvars, not_cvars>>

CacheKeyNext == \E a \in KeyRequests, b \in KeyRequests : GenerateCacheKeys(a, b)

SpecCacheKey == InitManager /\ [][CacheKeyNext]_vars

BreakerNext ==
    \/ \E c \in Callers : Call(c)
    \/ \E c \in Callers : Succeed(c)
    \/ \E c \in Callers : Fail(c)
    \/ \E c \in Callers : RaiseOther(c)
    \/ Reset
    \/ Tick

InitBreaker ==
    /\ now = 0
    /\ BreakerInit
    /\ redis_client = "none"
    /\ RouterIdle
    /\ OthersIdle

SpecBreaker == InitBreaker /\ [][BreakerNext]_vars

(***************************************************************************)
(* Properties of the circuit breaker.                                      *)
(***************************************************************************)

\* the step taken is a breaker step of this kind
Step(kind) == evt'.flip # evt.flip /\ evt'.kind = kind

\* C3: a Closed breaker with threshold n opens exactly on the counted failure
\* that is the n-th in a row; in Closed failure_count is the length of the
\* current run of counted failures (below n), and a success sets it to zero.
C3_OpensAtThreshold ==
    [][state = "closed" =>
         /\ failure_count = consec
         /\ consec < failure_threshold
         /\ (state' = "open") <=> (Step("failure") /\ consec' = failure_threshold)
         /\ Step("success") => (failure_count' = 0 /\ state' = "closed")
      ]_vars

\* C3 witness: a breaker with threshold 2 has opened on its 2nd failure in a row
C3_Witness ==
    /\ failure_threshold = 2
    /\ state = "open"
    /\ evt.kind = "failure"
    /\ evt.from = "closed"
    /\ consec = 2

\* C4: while Open and before recovery_timeout has elapsed since the opening,
\* a call is rejected, starts no wrapped function and changes no field.
C4_OpenRejects ==
    [][(/\ state = "open"
        /\ now < opened_at + recovery_timeout
        /\ (Step("admit") \/ Step("reject")))
       => /\ Step("reject")
          /\ pc' = pc
          /\ UNCHANGED <<state, failure_count, half_open_calls, last_failure_time>>
      ]_vars

\* C4 witness: a call was rejected by an Open breaker within the timeout
C4_Witness ==
    /\ evt.kind = "reject"
    /\ state = "open"
    /\ now < opened_at + recovery_timeout

\* C5: a counted failure in HalfOpen puts the breaker in Open at once and
\* restarts the recovery timer at the time of that failure.
C5_HalfOpenFailureReopens ==
    [][(state = "half_open" /\ Step("failure"))
       => /\ state' = "open"
          /\ last_failure_time' = now
          /\ opened_at' = now
          /\ ~should_attempt_reset'
      ]_vars

\* C5 witness: the breaker re-opened from HalfOpen
C5_Witness ==
    /\ evt.kind = "failure"
    /\ evt.from = "half_open"
    /\ state = "open"
    /\ last_failure_time = now

\* C6: once recovery_timeout has elapsed since the breaker opened, the next
\* call is admitted, moving it to HalfOpen with the half-open counter at 0;
\* from HalfOpen it closes exactly on the success that is the
\* half_open_max_calls-th since entering HalfOpen, with failure_count 0.
C6_RecoversAfterTimeout ==
    [][/\ (/\ state = "open"
           /\ now >= opened_at + recovery_timeout
           /\ (Step("admit") \/ Step("reject")))
          => (Step("admit") /\ state' = "half_open" /\ half_open_calls' = 0)
       /\ (state = "half_open" /\ ~Step("reset"))
          => /\ (state' = "closed") <=>
                    (Step("success") /\ half_open_calls + 1 = half_open_max_calls)
             /\ (state' = "closed") => failure_count' = 0
      ]_vars

\* the part of C6 the code keeps: the same, with the timeout measured from the
\* last counted failure (last_failure_time) instead of from the opening
C6_RecoversAfterLastFailure ==
    [][/\ (/\ state = "open"
           /\ now >= last_failure_time + recovery_timeout
           /\ (Step("admit") \/ Step("reject")))
          => (Step("admit") /\ state' = "half_open" /\ half_open_calls' = 0)
       /\ (state = "half_open" /\ ~Step("reset"))
          => /\ (state' = "closed") <=>
                    (Step("success") /\ half_open_calls + 1 = half_open_max_calls)
             /\ (state' = "closed") => failure_count' = 0
      ]_vars

(***************************************************************************)
(* Properties of the router's text search and of the cache behind it.      *)
(***************************************************************************)

Failed == {i \in DOMAIN results : results[i] = Raised}
Succeeded == {i \in DOMAIN results : results[i].kind = "returned"}
Dispatched == rpc = "done" /\ available_providers # <<>>

\* C1: a search that dispatched to at least one provider answers success when
\* no provider failed, partial when some succeeded and some failed, and error
\* otherwise.
C1_StatusByOutcome ==
    Dispatched =>
        response.status = IF Failed = {} THEN "success"
                          ELSE IF Succeeded # {} THEN "partial"
                          ELSE "error"

\* C2: with n >= 2 providers dispatched of which m failed, 1 <= m <= n-1, the
\* response is partial, its results come from providers that succeeded,
\* providers_failed is the set of failed and providers_used the set of
\* succeeded providers.
C2_PartialFailure ==
    (Dispatched /\ Len(available_providers) >= 2 /\ Failed # {} /\ Succeeded # {})
        => /\ response.status = "partial"
           /\ \A k \in DOMAIN response.results :
                  response.results[k].provider
                      \in {available_providers[i] : i \in Succeeded}
           /\ Range(response.providers_failed) = {available_providers[i] : i \in Failed}
           /\ Range(response.providers_used) = {available_providers[i] : i \in Succeeded}

\* the part of C2 the code keeps: the same, for a query the query processor
\* derives no filters for
C2_PartialFailureWithoutFilters ==
    (Dispatched /\ Len(available_providers) >= 2 /\ Failed # {} /\ Succeeded # {}
        /\ ~HasFilters(request.query))
        => /\ response.status = "partial"
           /\ \A k \in DOMAIN response.results :
                  response.results[k].provider
                      \in {available_providers[i] : i \in Succeeded}
           /\ Range(response.providers_failed) = {available_providers[i] : i \in Failed}
           /\ Range(response.providers_used) = {available_providers[i] : i \in Succeeded}

\* C7: the response a cache hit gives is the response that was set, except that
\* its cache_hit is true.
C7_CacheRoundTrip ==
    (rpc = "done" /\ from_cache)
        => /\ response.cache_hit = TRUE
           /\ [response EXCEPT !.cache_hit = FALSE]
                  = [last_set[generate_cache_key(request)] EXCEPT !.cache_hit = FALSE]

\* the part of C7 the code keeps: a hit gives back the response that was set,
\* in every field (cache_hit, which was false, included)
C7_CacheRoundTripUnstamped ==
    (rpc = "done" /\ from_cache)
        => response = last_set[generate_cache_key(request)]

\* C8 as stated: a request with caching enabled, issued after an identical
\* request has completed with a status other than error, is answered from the
\* cache: no provider is selected, no task is created.
C8_SecondAlwaysFromCache ==
    (rpc # "idle" /\ repeat # "first" /\ UsesCache(request) /\ ~CacheDisabled(request))
        => /\ rpc = "done"
           /\ from_cache
           /\ available_providers = <<>>
           /\ results = <<>>

\* C8: a request with caching enabled, issued after an identical request has
\* completed with a status other than error and before the ttl of what that one
\* stored has run out, is answered from the cache: no provider is selected, no
\* task is created.
C8_SecondFromCache ==
    (rpc # "idle" /\ repeat = "within_ttl" /\ UsesCache(request) /\ ~CacheDisabled(request))
        => /\ rpc = "done"
           /\ from_cache
           /\ available_providers = <<>>
           /\ results = <<>>

\* C8 witness: the second of two identical requests has been answered from the cache
C8_Witness ==
    /\ rpc = "done"
    /\ repeat = "within_ttl"
    /\ from_cache
    /\ response.status = "success"
    /\ available_providers = <<>>

\* C9: the router writes a response to the cache only with caching enabled and
\* a status other than error, and never one no provider contributed to.
C9_NoErrorCached ==
    (rpc = "done" /\ stored)
        => /\ UsesCache(request) /\ ~CacheDisabled(request)
           /\ response.status # "error"
           /\ response.providers_used # <<>>

\* C10: the search has returned by its deadline, a provider whose task ended
\* after the deadline is in providers_failed, and none of its results is in the
\* response or in the cache.
C10_Deadline ==
    /\ rpc = "gathering" => now <= Deadline
    /\ (Dispatched /\ response.status # "error")
           => \A i \in DOMAIN late :
                  late[i] => /\ available_providers[i] \in Range(response.providers_failed)
                             /\ \A k \in DOMAIN response.results :
                                    response.results[k].provider # available_providers[i]
    /\ (Dispatched /\ stored) => \A i \in DOMAIN late : ~late[i]

(***************************************************************************)
(* Properties of the adapter's retried request.                            *)
(***************************************************************************)

Transient == {"network", "http500", "http429"}

\* C11: another attempt is made only after a transient failure (network error,
\* 5xx, 429), never after a rejection by the open breaker, a 401/403 or another
\* 4xx.
C11_RetryOnlyTransient == retried_after \subseteq Transient

\* C12: the attempts of one call never exceed the max_attempts of the
\* provider's retry policy.
C12_AttemptsWithinPolicy == attempt_number <= max_attempts

(***************************************************************************)
(* Properties of the aggregator.                                           *)
(***************************************************************************)

Hashes(rs) == {get_content_hash(rs[i]) : i \in DOMAIN rs}

MaxScore(rs, h) ==
    CHOOSE m \in {rs[i].score : i \in {j \in DOMAIN rs : get_content_hash(rs[j]) = h}} :
        \A i \in DOMAIN rs : get_content_hash(rs[i]) = h => rs[i].score <= m

\* C13: aggregate with deduplication returns one result per fingerprint of the
\* input, the fingerprints of the output are those of the input, and the result
\* of a fingerprint carries the highest score the input has for it.
C13_DedupKeepsMaxPerFingerprint ==
    (gpc = "aggregated" /\ agg_deduplicate)
        => /\ Hashes(agg_returned) = Hashes(agg_results)
           /\ Len(agg_returned) = Cardinality(Hashes(agg_results))
           /\ \A i \in DOMAIN agg_returned :
                  /\ agg_returned[i] \in Range(agg_results)
                  /\ agg_returned[i].score
                         = MaxScore(agg_results, get_content_hash(agg_returned[i]))

\* C13 witness: a later result with a higher score has replaced an earlier one
\* of its fingerprint
C13_Witness ==
    /\ gpc = "aggregated"
    /\ agg_deduplicate
    /\ Len(agg_results) = 3
    /\ get_content_hash(agg_results[1]) = get_content_hash(agg_results[3])
    /\ get_content_hash(agg_results[1]) # get_content_hash(agg_results[2])
    /\ agg_results[1].score < agg_results[3].score
    /\ Len(agg_returned) = 2

\* non-increasing scores, and equal scores in the order of the input
SortedStable(out, in) ==
    \A i, j \in DOMAIN out :
        i < j => /\ out[i].score >= out[j].score
                 /\ out[i].score = out[j].score
                        => \E p, q \in DOMAIN in :
                               p < q /\ in[p] = out[i] /\ in[q] = out[j]

\* C14: the output of aggregate is in non-increasing score order, results of
\* equal score in the order they have in the input, with or without
\* deduplication.
C14_SortedStable ==
    gpc = "aggregated" => SortedStable(agg_returned, agg_results)

\* the part of C14 the code keeps: the same without deduplication, and with
\* deduplication the non-increasing order
C14_SortedStableWithoutDedup ==
    gpc = "aggregated"
        => /\ ~agg_deduplicate => SortedStable(agg_returned, agg_results)
           /\ \A i, j \in DOMAIN agg_returned :
                  i < j => agg_returned[i].score >= agg_returned[j].score

\* the hash x has rank r in list l
HasRank(l, x, r) ==
    r \in DOMAIN result_lists[l] /\ get_content_hash(result_lists[l][r]) = x

\* the sum of 1/(60 + r) over pairs (list, rank)
RECURSIVE RrfSum(_)
RrfSum(at) ==
    IF at = {} THEN 0
    ELSE LET lr == CHOOSE e \in at : TRUE
         IN (RrfUnit \div (60 + lr[2])) + RrfSum(at \ {lr})

\* the sum of 1/(60 + r) over the lists holding x, r being its rank there
RrfExpected(x) ==
    RrfSum({lr \in (DOMAIN result_lists) \X (1..MaxListLen) : HasRank(lr[1], x, lr[2])})

\* no list holds a fingerprint twice
NoRepeats ==
    \A l \in DOMAIN result_lists : \A r, q \in DOMAIN result_lists[l] :
        HasRank(l, get_content_hash(result_lists[l][q]), r) => r = q

\* where a hash is first met in the lists
FirstMet(x) ==
    CHOOSE lr \in (DOMAIN result_lists) \X (1..MaxListLen) :
        /\ HasRank(lr[1], x, lr[2])
        /\ \A mq \in (DOMAIN result_lists) \X (1..MaxListLen) :
               HasRank(mq[1], x, mq[2])
                   => (lr[1] < mq[1] \/ (lr[1] = mq[1] /\ lr[2] <= mq[2]))

Before(a, b) == a[1] < b[1] \/ (a[1] = b[1] /\ a[2] < b[2])

RECURSIVE Granted(_, _)
Granted(a, b) == IF a > b THEN 0 ELSE grants[a] + Granted(a + 1, b)

\* C16: the tokens granted in any window of length W, to acquire and
\* try_acquire calls together, are at most C + r*W + 1.
C16_BucketBound ==
    \A a, b \in BucketTimes :
        a <= b => Granted(a, b) <= capacity + refill_rate * (b - a) + 1

\* C16 witness: a window in which blocking and non-blocking calls together were
\* granted the capacity and a refill, one of them after a sleep
C16_Witness ==
    /\ \E a, b \in BucketTimes :
           a < b /\ Granted(a, b) = capacity + refill_rate * (b - a)
    /\ \E c \in Callers : tpc[c].st = "asleep"
    /\ now = MaxBucketTime

(***************************************************************************)
(* Properties of the router's searches.                                    *)
(***************************************************************************)

\* C19: search does not raise: an exception raised while the request is handled
\* ends in a response with status error, no results and the exception's message
\* as errors[0].message.
C19_NeverRaises ==
    (rpc = "done" /\ raised # "none")
        => /\ response.status = "error"
           /\ response.results = <<>>
           /\ Len(response.errors) >= 1
           /\ response.errors[1] = raised

\* C19 witness: a provider had returned its results and
\* building the response raised after the gather
C19_Witness ==
    /\ rpc = "done"
    /\ raised = "validation"
    /\ \E i \in DOMAIN results : results[i].kind = "returned"
    /\ response.status = "error"

(***************************************************************************)
(* Properties of the query processor.                                      *)
(***************************************************************************)

\* the field of the ProcessedQuery that holds the output of gathered task i
OutputOf(i) ==
    IF i = 1 THEN processed_query.corrected
    ELSE IF i = 2 THEN processed_query.entities
    ELSE IF i = 3 THEN processed_query.intent
    ELSE IF i = 4 THEN processed_query.keywords
    ELSE processed_query.embedding

\* C20: process does not fail when an enrichment subtask (spell correction,
\* entity extraction, intent classification, keyword extraction, embedding,
\* query expansion) raises: it returns a ProcessedQuery without that subtask's
\* output and with the output of every other.
C20_SubtaskFailureTolerated ==
    /\ qpc # "raised"
    /\ qpc = "done"
           => /\ \A i \in DOMAIN Subtasks :
                     IF enrichments[i] = Raised \/ enrichments[i] = Returned("same")
                         THEN OutputOf(i) = <<>>
                         ELSE OutputOf(i) = <<enrichments[i].list>>
              /\ processed_query.expanded = <<"value">>

\* the part of C20 the code keeps: whatever the gathered tasks do, process
\* reaches expand_query, and when that returns the ProcessedQuery lacks the
\* outputs of the tasks that raised and has those of the others
C20_GatheredFailureTolerated ==
    /\ qpc = "raised" => expanded = Raised
    /\ qpc = "done"
           => /\ \A i \in DOMAIN Subtasks :
                     IF enrichments[i] = Raised \/ enrichments[i] = Returned("same")
                         THEN OutputOf(i) = <<>>
                         ELSE OutputOf(i) = <<enrichments[i].list>>
              /\ processed_query.expanded = <<"value">>

\* C18: when no provider passes selection (for a text search, after the
\* fallback providers were tried too), the search ends with status error and
\* no results, and no adapter is called.
C18_NoProvidersIsError ==
    (rpc = "done" /\ ~from_cache /\ available_providers = <<>>)
        => /\ response.status = "error"
           /\ response.results = <<>>
           /\ results = <<>>

\* C17: every provider a response lists in providers_used or providers_failed
\* is one to which an adapter call was dispatched for the request.
C17_ListedWereDispatched ==
    (rpc = "done" /\ ~from_cache)
        => Range(response.providers_used) \cup Range(response.providers_failed)
               \subseteq Range(available_providers)

\* C21: an exception raised by the cache (get or set) or by rerank during a
\* text search does not fail the request: the response is the one the
\* providers' outcomes determine, with their results.
C21_CollaboratorFailureTolerated ==
    /\ (rpc = "done" /\ ~from_cache /\ results # <<>> /\ ~HasFilters(request.query))
           => /\ response.status = BuildResponse(request, available_providers, results).status
              /\ response.results = BuildResponse(request, available_providers, results).results
    /\ (rpc = "done" /\ raised \in {"cache get", "cache set", "rerank"})
           => response.status # "error"

\* C30: when every dispatched provider succeeded, the response of a text
\* search has status success and the aggregated results, whatever the query
\* processor derived, non-empty filters included.
C30_AllSucceededIsSuccess ==
    (/\ rpc = "done" /\ ~from_cache /\ results # <<>>
     /\ \A i \in DOMAIN results : results[i].kind = "returned")
        => /\ response.status = "success"
           /\ response.results = BuildResponse(request, available_providers, results).results

\* C30 for the queries whose synthesised filters are empty
C30_AllSucceededIsSuccessUnfiltered ==
    (/\ rpc = "done" /\ ~from_cache /\ results # <<>>
     /\ ~HasFilters(request.query)
     /\ \A i \in DOMAIN results : results[i].kind = "returned")
        => /\ response.status = "success"
           /\ response.results = BuildResponse(request, available_providers, results).results

\* the names of a sequence without repeats, in the order of first occurrence
RECURSIVE Distinct(_)
Distinct(seq) ==
    IF seq = <<>> THEN <<>>
    ELSE LET rest == Distinct(SubSeq(seq, 1, Len(seq) - 1))
         IN IF seq[Len(seq)] \in Range(rest) THEN rest ELSE Append(rest, seq[Len(seq)])

\* the registered providers a call names whose health, at the call, lets them through
Eligible(args) ==
    {n \in Range(args.requested) \cap Range(Registry) :
        args.health[n] \in {"healthy", "degraded", "none"}}

\* C22: get_available_providers(requested) returns exactly the registered
\* providers named in requested that are healthy, degraded or never checked,
\* in the order in which requested names them.
C22_AvailableInRequestedOrder ==
    (call_args # None /\ call_args.op = "get_available_providers"
        /\ call_args.requested # <<>>)
        => call_result = SelectSeq(Distinct(call_args.requested),
                                   LAMBDA n : n \in Eligible(call_args))

\* C22 without the order: the providers returned are exactly the eligible ones,
\* each once, and none is unhealthy
C22_AvailableAreEligible ==
    (call_args # None /\ call_args.op = "get_available_providers"
        /\ call_args.requested # <<>>)
        => /\ Range(call_result) = Eligible(call_args)
           /\ Len(call_result) = Cardinality(Eligible(call_args))
           /\ \A n \in Range(call_result) : call_args.health[n] # "unhealthy"

\* the weights of the strategies a task was created for, in task order
TaskWeights(strategies) ==
    LET tasks == SelectSeq(strategies, HasTask)
    IN [i \in DOMAIN tasks |-> tasks[i].weight]

\* the lists the tasks returned, each score multiplied by the weight given
\* for its task
WeightedLists(outcomes, weights) ==
    LET idx == [i \in DOMAIN outcomes |-> i]
        ok == SelectSeq(idx, LAMBDA i : outcomes[i].kind = "returned")
    IN [k \in DOMAIN ok |->
           [r \in DOMAIN outcomes[ok[k]].list |->
               [outcomes[ok[k]].list[r] EXCEPT !.score = (@ * weights[ok[k]]) \div 2]]]

FuseBy(method, lists) ==
    IF method = "reciprocal_rank" THEN reciprocal_rank_fusion(lists)
    ELSE IF method = "weighted_sum" THEN weighted_sum_fusion(lists)
    ELSE max_score_fusion(lists)

\* a hybrid search has gathered its tasks and answered
HybridAnswered ==
    /\ rpc = "done"
    /\ raised = "none"
    /\ request # None
    /\ "strategies" \in DOMAIN request

\* C23: in hybrid search every result's score is multiplied, before fusion,
\* by the weight of the strategy that produced it, also when the list holds
\* a strategy that dispatches no task.
C23_OwnWeightApplied ==
    HybridAnswered
        => response.results =
               FuseBy(request.fusion_method,
                      WeightedLists(results, TaskWeights(request.strategies)))

\* C23 for the lists in which every strategy with an adapter dispatches a task
C23_OwnWeightAppliedWhenAllDispatch ==
    (HybridAnswered
        /\ \A i \in DOMAIN request.strategies :
               HasAdapter(request.strategies[i].provider) => HasTask(request.strategies[i]))
        => response.results =
               FuseBy(request.fusion_method,
                      WeightedLists(results, TaskWeights(request.strategies)))

\* the providers of the tasks with the given kind of outcome
ProvidersWith(kind) ==
    {available_providers[i] : i \in {j \in DOMAIN results : results[j].kind = kind}}

\* C24: a hybrid search answers partial when a strategy's call failed and
\* another succeeded, error when no strategy contributed results, and reports
\* a provider whose call failed in providers_failed, not in providers_used.
C24_HybridStatusByOutcome ==
    HybridAnswered
        => /\ (ProvidersWith("exception") # {} /\ ProvidersWith("returned") # {})
                  => response.status = "partial"
           /\ ProvidersWith("returned") = {} => response.status = "error"
           /\ \A p \in ProvidersWith("exception") \ ProvidersWith("returned") :
                  /\ p \in Range(response.providers_failed)
                  /\ p \notin Range(response.providers_used)

\* what hybrid search does answer once its tasks are gathered
C24_HybridAlwaysSuccess ==
    HybridAnswered
        => /\ response.status = "success"
           /\ response.providers_failed = <<>>

\* the key of the request a direct call of the cache was given
CallKey == generate_cache_key(call_args.request)

\* at the call, the remote tier answered the key with an entry
RemoteAnswered ==
    /\ call_args.client \in {"redis", "mock"}
    /\ CallKey \in DOMAIN call_args.redis
    /\ call_args.client = "mock" \/ call_args.at < call_args.redis[CallKey].expires

\* at the call, the local entries of the key
LocalEntries == {i \in DOMAIN call_args.local : call_args.local[i].key = CallKey}

\* a direct call of get with caching enabled for the request
GetCalled ==
    /\ call_args # None
    /\ call_args.op = "get"
    /\ ~CacheDisabled(call_args.request)

\* C25: get consults the remote tier first; when that misses, is absent or
\* raises, it returns the local entry if it has not expired, and deletes an
\* expired local entry and reports a miss; the remote tier's failure does not
\* reach the caller.
C25_RemoteThenLocal ==
    GetCalled =>
        IF RemoteAnswered
            THEN /\ call_result.hit
                 /\ call_result.data =
                        deserialize_response(call_args.redis[CallKey].data)
        ELSE IF LocalEntries = {}
            THEN ~call_result.hit /\ call_result.local = call_args.local
        ELSE LET entry == call_args.local[CHOOSE i \in LocalEntries : TRUE]
             IN IF entry.expires_at > call_args.at
                    THEN /\ call_result.hit
                         /\ call_result.data = entry.data
                         /\ call_result.local = call_args.local
                    ELSE /\ ~call_result.hit
                         /\ \A i \in DOMAIN call_result.local :
                                call_result.local[i].key # CallKey

\* a get that found the remote tier failing and an expired local entry
C25_Witness ==
    /\ GetCalled
    /\ call_args.client = "down"
    /\ LocalEntries # {}
    /\ ~call_result.hit
    /\ Len(call_result.local) < Len(call_args.local)

\* C26: once set has returned (its eviction has run) the local cache holds at
\* most max_cache_size entries.
C26_LocalCacheBounded ==
    Len(local_cache) <= max_cache_size

\* C26, the part about what is removed: no entry left by a set that evicted
\* had expired when set ran
C26_ExpiredAreEvicted ==
    (call_args # None /\ call_args.op = "set" /\ ~CacheDisabled(call_args.request)
        /\ Len(local_cache) > max_cache_size)
        => \A i \in DOMAIN local_cache : local_cache[i].expires_at > call_args.at

\* two keys were generated
KeysGenerated == call_args # None /\ call_args.op = "generate_cache_key"

\* options.cache.key is supplied
KeySupplied(req) ==
    req.options # None /\ req.options.cache # None /\ req.options.cache.key # None

\* the key uir:custom:k
CustomKey(k) == [custom |-> TRUE, key |-> k]

\* C27 as stated: the key depends only on the set of provider names, the query
\* and the options; a supplied options.cache.key = k gives uir:custom:k.
C27_KeyBySetOfProviders ==
    KeysGenerated =>
        LET a == call_args.a
            b == call_args.b
        IN /\ (/\ Range(a.provider.names) = Range(b.provider.names)
               /\ a.query = b.query
               /\ a.options = b.options)
                  => call_result.a = call_result.b
           /\ (/\ ~KeySupplied(a) /\ ~KeySupplied(b)
               /\ \/ Range(a.provider.names) # Range(b.provider.names)
                  \/ a.options # b.options)
                  => call_result.a # call_result.b
           /\ KeySupplied(a) => call_result.a = CustomKey(a.options.cache.key)

\* options.cache.key is supplied and not empty
KeyGiven(req) == KeySupplied(req) /\ req.options.cache.key.str # ""

\* C27 amended: the key depends only on the provider names listed, whatever
\* their order (a name listed twice counting twice), the query and the
\* options; a supplied, non-empty options.cache.key = k gives uir:custom:k.
C27_KeyByNamesListed ==
    KeysGenerated =>
        LET a == call_args.a
            b == call_args.b
        IN /\ (/\ SortNames(a.provider.names) = SortNames(b.provider.names)
               /\ a.query = b.query
               /\ a.options = b.options)
                  => call_result.a = call_result.b
           /\ (/\ ~KeyGiven(a) /\ ~KeyGiven(b)
               /\ \/ Range(a.provider.names) # Range(b.provider.names)
                  \/ a.options # b.options)
                  => call_result.a # call_result.b
           /\ KeyGiven(a) => call_result.a = CustomKey(a.options.cache.key)

\* the keys of two requests that list the same two providers in different orders
C27_Witness ==
    /\ KeysGenerated
    /\ call_args.a.provider.names = <<"google", "bing">>
    /\ call_args.b.provider.names = <<"bing", "google">>
    /\ call_args.a.query = call_args.b.query
    /\ call_args.a.options = call_args.b.options
    /\ ~KeyGiven(call_args.a)
    /\ call_result.a = call_result.b

\* C28: an exception of the wrapped function that is no expected_exception
\* leaves failure_count and the breaker's state as they were, in whichever
\* state the call was admitted.
C28_OtherExceptionLeavesBreaker ==
    [][(evt' # evt /\ evt'.kind = "raise")
           => /\ failure_count' = failure_count
              /\ state' = state
              /\ last_failure_time' = last_failure_time
              /\ \E c \in Callers : pc[c] = "running" /\ pc'[c] = "idle"]_vars

\* such an exception has left a call admitted in HalfOpen, after counted failures
C28_Witness ==
    /\ evt.kind = "raise"
    /\ evt.from = "half_open"
    /\ state = "half_open"
    /\ failure_count > 0

\* C29: every state transition and every counter mutation of the breaker,
\* those of reset() included, happens with the breaker's mutex held.
C29_MutationsUnderLock ==
    [][(\/ state' # state
        \/ failure_count' # failure_count
        \/ half_open_calls' # half_open_calls)
           => HoldsLock(evt'.kind)]_vars

\* C29 for the steps of call(): their mutations happen with the mutex held,
\* and the wrapped function runs between two such steps
C29_CallMutatesUnderLock ==
    [][(/\ evt'.kind # "reset"
        /\ \/ state' # state
           \/ failure_count' # failure_count
           \/ half_open_calls' # half_open_calls)
           => HoldsLock(evt'.kind)]_vars

\* C29, the effect of reset(): Closed, with failure_count and half_open_calls at zero
C29_ResetZeroes ==
    [][(evt' # evt /\ evt'.kind = "reset")
           => /\ state' = "closed"
              /\ failure_count' = 0
              /\ half_open_calls' = 0]_vars

\* C31: one failing adapter call, its retries included, adds at most one
\* failure to the breaker's failure_count, so it cannot alone open a breaker
\* whose failure_threshold is at least 2.
C31_OneFailurePerCall ==
    (apc # "idle" /\ has_breaker)
        => /\ failure_count <= failures_before + 1
           /\ (failure_threshold >= 2 /\ failures_before = 0 /\ consec = failure_count)
                  => state # "open"

\* what the code keeps to: at most one failure for each attempt of the call
C31_OneFailurePerAttempt ==
    (apc # "idle" /\ has_breaker)
        => failure_count <= failures_before + attempt_number

\* the callers whose wrapped function is running
InFlight == {c \in Callers : pc[c] = "running"}

\* C32: while the breaker is HalfOpen at most half_open_max_calls wrapped
\* calls are in flight; callers beyond that number are rejected.
C32_HalfOpenCallsBounded ==
    state = "half_open" => Cardinality(InFlight) <= half_open_max_calls

\* C33: a call made recovery_timeout or more after the breaker entered Open is
\* admitted, and nothing that happens while it is Open (the completion of a
\* call admitted before it opened) changes failure_count or the state.
C33_OpenUntouchedUntilTimeout ==
    [][/\ (/\ state = "open"
           /\ now >= opened_at + recovery_timeout
           /\ (Step("admit") \/ Step("reject")))
          => (Step("admit") /\ state' = "half_open")
       /\ (/\ state = "open"
           /\ (Step("failure") \/ Step("success") \/ Step("raise")))
          => (failure_count' = failure_count /\ state' = state)
      ]_vars

\* the part of C33 the code keeps: a completion while Open leaves the state Open
C33_CompletionKeepsOpen ==
    [][(/\ state = "open"
        /\ (Step("failure") \/ Step("success") \/ Step("raise")))
           => state' = "open"]_vars

\* C34: a Closed breaker has counted fewer failures than its threshold, under
\* every interleaving of calls, completions and reset().
C34_ClosedBelowThreshold ==
    state = "closed" => failure_count < failure_threshold

\* a Closed breaker that has counted a failure while another call is in flight
C34_Witness ==
    /\ state = "closed"
    /\ failure_count >= 1
    /\ evt.kind = "failure"
    /\ InFlight # {}

\* options.deduplicate of the request in flight (true when there are no options)
Deduplicates ==
    request.options = None \/ request.options.deduplicate

\* no two results of the response have the same fingerprint
UniqueByFingerprint ==
    \A i, j \in DOMAIN response.results :
        get_content_hash(response.results[i]) = get_content_hash(response.results[j])
            => i = j

\* a text search has answered
TextAnswered ==
    /\ rpc = "done"
    /\ request # None
    /\ "query" \in DOMAIN request

\* C35: with options.deduplicate true a text-search response never holds two
\* results of the same fingerprint, with or without options.rerank.
C35_NoDuplicateFingerprints ==
    (TextAnswered /\ Deduplicates) => UniqueByFingerprint

\* C35 for the requests that do not ask for reranking
C35_NoDuplicateFingerprintsUnranked ==
    (TextAnswered /\ Deduplicates
        /\ (request.options = None \/ ~request.options.rerank))
        => UniqueByFingerprint

\* the providers the request in flight names: its provider field and, for a
\* text search, options.fallback_providers
NamedProviders ==
    Range(request.provider.names)
        \cup (IF "options" \in DOMAIN request /\ request.options # None
                  THEN Range(request.options.fallback_providers)
                  ELSE {})

\* C36: a text or vector search dispatches only to providers the request
\* names; a request with an empty provider list dispatches to none.
C36_DispatchOnlyToNamed ==
    (rpc \in {"gathering", "done"} /\ request # None /\ "provider" \in DOMAIN request)
        => Range(available_providers) \subseteq NamedProviders

\* C36 for the requests that name at least one provider
C36_DispatchOnlyToNamedNonEmpty ==
    (/\ rpc \in {"gathering", "done"} /\ request # None /\ "provider" \in DOMAIN request
     /\ request.provider.names # <<>>)
        => Range(available_providers) \subseteq NamedProviders

\* C37: no search path dispatches a call to a provider whose latest recorded
\* health status is unhealthy.
C37_NoDispatchToUnhealthy ==
    [][(rpc = "idle" /\ rpc' = "gathering")
           => \A i \in DOMAIN available_providers' :
                  health_status[available_providers'[i]] # "unhealthy"]_vars

\* check_provider_health has just been called
HealthChecked == call_args # None /\ call_args.op = "check_provider_health"

\* C38: check_provider_health records unhealthy whenever the adapter's health
\* check reports unhealthy or raises, whatever the latency; a slow check only
\* turns healthy into degraded.
C38_UnhealthyStaysUnhealthy ==
    HealthChecked =>
        /\ call_args.reported \in {"unhealthy", "raise"}
               => health_status[call_args.name] = "unhealthy"
        /\ (call_args.slow /\ call_args.reported = "healthy")
               => health_status[call_args.name] = "degraded"

\* C38 for the checks that were not slow, and for those that raised
C38_UnhealthyStaysUnhealthyInTime ==
    (HealthChecked /\ (~call_args.slow \/ call_args.reported = "raise"))
        => (call_args.reported \in {"unhealthy", "raise"}
               => health_status[call_args.name] = "unhealthy")


(***************************************************************************)
(* Properties of the sliding-window limiter.                               *)
(***************************************************************************)

RECURSIVE AdmittedIn(_, _)
\* the calls admitted with a timestamp in [a, b]
AdmittedIn(a, b) ==
    IF a > b \/ a > MaxWindowTime THEN 0 ELSE admissions[a] + AdmittedIn(a + 1, b)

\* the timestamps of the deque a try_acquire found that are not older than its
\* now - window_seconds
Remaining(try) ==
    {i \in DOMAIN try.held : try.held[i] >= try.at - window_seconds}

\* C39: the calls admitted, by acquire and try_acquire together, with timestamps
\* in any interval of length window_seconds are at most max_requests, the deque
\* never holds more than max_requests timestamps, and try_acquire returns True
\* exactly when fewer than max_requests timestamps are not older than
\* now - window_seconds.
C39_WindowBound ==
    /\ \A a \in WindowTimes : AdmittedIn(a, a + window_seconds) <= max_requests
    /\ Len(requests) <= max_requests
    /\ last_try # None
           => (last_try.returned <=> Cardinality(Remaining(last_try)) < max_requests)

\* C39 witness: try_acquire found the window full and returned False, a caller of
\* acquire slept, and after the eviction of old timestamps more calls were
\* admitted than max_requests, the deque being full again
C39_Witness ==
    /\ last_try # None
    /\ ~last_try.returned
    /\ Len(last_try.held) = max_requests
    /\ AdmittedIn(0, MaxWindowTime) > max_requests
    /\ Len(requests) = max_requests
    /\ requests[1] > 0
    /\ \E c \in Callers : wpc[c].st = "asleep"


(***************************************************************************)
(* Properties of the blocking acquire of the token bucket.                 *)
(***************************************************************************)

\* C40: a blocking acquire(n) eventually returns, for every n >= 1 it can be
\* called with.  _refill caps the tokens at capacity, so a caller asleep in
\* acquire(n) can return only if n <= capacity: no caller is ever asleep on a
\* request that no refill can meet.
C40_SleeperCanReturn ==
    \A c \in Callers : tpc[c].st = "asleep" => tpc[c].n <= capacity

\* C40, the deduction: a step that grants tokens takes exactly the tokens granted
\* from the refilled bucket.
C40_GrantDeductsExactly ==
    [][grants' # grants
           => tokens' = refill(tokens) - (grants'[now] - grants[now])]_vars

\* C40, the mutex: while a caller sleeps in acquire, a call of acquire(1) by
\* another caller on a bucket that has a token after the refill returns at once.
C40_SleeperBlocksNobody ==
    [][\A c, d \in Callers :
           (/\ c # d
            /\ tpc[c].st = "asleep"
            /\ tpc[d].st = "idle"
            /\ tpc'[d] # tpc[d])
               => tpc'[d].n > refill(tokens)]_vars

====
